---- MODULE Spec2Model ----
(***************************************************************************)
(* Cross-exchange arbitrage detection: the exchange adapters, the exchange *)
(* manager (quote aggregation) and the arbitrage detector of               *)
(* python_backend/exchanges/ and python_backend/arbitrage/detector.py,     *)
(* which api/server.py runs, and the earlier manager and detector of      *)
(* python_backend/exchanges.py and python_backend/arbitrage_detector.py,   *)
(* which server.py runs.                                                   *)
(*                                                                         *)
(* Numbers.  Prices are integers counted in ticks of 0.01 USD, volumes are *)
(* integers counted in 0.01 units of the base asset.  Python's None and 0  *)
(* take the same branch of every truth test in the code (`not x`,          *)
(* `if a and b`), so both are written 0.  Every derived float              *)
(* (spread_percent, profit_potential, confidence_score, ...) is an exact   *)
(* fraction <<numerator, denominator>> in lowest terms.                    *)
(* Time is in seconds.                                                     *)
(***************************************************************************)
EXTENDS Integers, Sequences, FiniteSets, TLC

VARIABLES
    entry,                    \* the server module the process runs
    symbols,                  \* ExchangeManager.symbols / BaseExchange.symbols
    min_spread_percent,       \* ArbitrageDetector.min_spread_percent, in 1/PctScale percent
    exchanges,                \* ExchangeManager.exchanges: name -> adapter state
    quotes_cache,             \* ExchangeManager.quotes_cache
    last_update,              \* ExchangeManager.last_update
    last_health_check,        \* ExchangeManager.last_health_check
    opportunities,            \* ArbitrageDetector.opportunities (live table, id -> opportunity)
    historical_opportunities, \* ArbitrageDetector.historical_opportunities
    detection_stats,          \* ArbitrageDetector.detection_stats
    alert_conditions,         \* ArbitrageDetector.alert_conditions, in insertion order
    coroutines,               \* the frames of the coroutines suspended at an await
    now,                      \* time.time()
    last                      \* the call that returned last, its inputs and its result

(* what no call of the two managers and detectors writes: the configuration,
   the alert registry, and the frames of the coroutines (a call that runs
   from its start to its return without another coroutine in between leaves
   no frame) *)
fixed == <<entry, symbols, min_spread_percent, alert_conditions, coroutines>>

vars == <<entry, symbols, min_spread_percent, exchanges, quotes_cache, last_update,
          last_health_check, opportunities, historical_opportunities,
          detection_stats, alert_conditions, coroutines, now, last>>

-----------------------------------------------------------------------------
(* Bounds of the model *)

MaxErrors == 1           \* error_count is followed up to this value
MaxCycles == 1           \* detection cycles that reach the analysis
StartTime == 90          \* time.time() at construction (any value > health_check_interval)

(* Program constants *)

max_retries == 3
health_check_interval == 60
RetentionWindow == 86400
MinSources == 2
PctScale == 100          \* min_spread_percent 0.05 is written 5
PriceScale == 100        \* ticks per USD
VolScale == 100          \* volume units per unit of the base asset

Sources == {"kraken", "kucoin", "bitfinex"}
ExchangeOrder == <<"kraken", "kucoin", "bitfinex">>

Null == [null |-> TRUE]

(* the coroutines that run on the event loop besides the request at hand:
   arbitrage_detection_service, a GET /quotes request, and
   health_monitoring_service *)
Coroutines == {"detector", "api", "health"}

IdleFrame == [pc |-> "idle"]

-----------------------------------------------------------------------------
(* Exact arithmetic standing for the floats of the code *)

Abs(x) == IF x < 0 THEN -x ELSE x

RECURSIVE GCD(_, _)
GCD(a, b) == IF b = 0 THEN a ELSE GCD(b, a % b)

Rat(n, d) ==
    LET g == GCD(Abs(n), Abs(d))
        s == IF d < 0 THEN -1 ELSE 1
    IN  <<(s * n) \div g, (s * d) \div g>>

RAdd(a, b) == Rat(a[1] * b[2] + b[1] * a[2], a[2] * b[2])
RSub(a, b) == Rat(a[1] * b[2] - b[1] * a[2], a[2] * b[2])
RMul(a, b) == Rat(a[1] * b[1], a[2] * b[2])
RLe(a, b) == a[1] * b[2] <= b[1] * a[2]
RLt(a, b) == a[1] * b[2] < b[1] * a[2]
RMin(a, b) == IF RLe(a, b) THEN a ELSE b
RMax(a, b) == IF RLe(a, b) THEN b ELSE a

Min(a, b) == IF a <= b THEN a ELSE b

SeqToSet(s) == {s[i] : i \in 1..Len(s)}

(* symbol.split('/')[0]; for the tracked symbols `'BTC' in symbol` is
   SymbolBase(symbol) = "BTC", and likewise for 'ETH' *)
AllSymbols == <<"BTC/USD", "ETH/USD", "XRP/USD", "LTC/USD",
                "ADA/USD", "DOT/USD", "LINK/USD", "UNI/USD">>
SymbolBase(symbol) ==
    CASE symbol = "BTC/USD" -> "BTC"
      [] symbol = "ETH/USD" -> "ETH"
      [] symbol = "XRP/USD" -> "XRP"
      [] symbol = "LTC/USD" -> "LTC"
      [] symbol = "ADA/USD" -> "ADA"
      [] symbol = "DOT/USD" -> "DOT"
      [] symbol = "LINK/USD" -> "LINK"
      [] OTHER -> "UNI"

-----------------------------------------------------------------------------
(* Upstream ticker responses.  fails is the number of consecutive upstream
   requests that raise before one answers; bid, ask, bidVolume, askVolume
   are the fields of the ticker that answers. *)

Ticker(f, b, a, bv, av) ==
    [fails |-> f, bid |-> b, ask |-> a, bidVolume |-> bv, askVolume |-> av]

Falsy(x) == x = 0

MakeQuote(name, symbol, ticker, t) ==
    [exchange |-> name, symbol |-> symbol, bid |-> ticker.bid, ask |-> ticker.ask,
     timestamp |-> t, bid_volume |-> ticker.bidVolume, ask_volume |-> ticker.askVolume]

(* An adapter: exchange is "self.exchange is set", the rest is its status *)
NewAdapter == [exchange |-> FALSE, connected |-> FALSE, error_count |-> 0]

Fetched(q, ad, n) == [quote |-> q, adapter |-> ad, requests |-> n]

CountError(ad) == [ad EXCEPT !.error_count = @ + 1]

ConnectUncounted(ad, ok) ==
    [ok |-> ok, adapter |-> [ad EXCEPT !.exchange = TRUE, !.connected = ok]]

(* connect(): ok is whether load_markets answered *)
Connect(ad, ok) ==
    IF ok
    THEN [ok |-> TRUE, adapter |-> [ad EXCEPT !.exchange = TRUE, !.connected = TRUE]]
    ELSE [ok |-> FALSE,
          adapter |-> [ad EXCEPT !.exchange = TRUE, !.connected = FALSE,
                                 !.error_count = @ + 1]]

(* a kraken adapter that asks again after an answer it rejects *)
KrakenFetchTickerRevalidating(ad, symbol, resp, t) ==
    IF ~ad.exchange \/ ~ad.connected THEN Fetched(Null, ad, 0)
    ELSE IF resp.fails >= max_retries THEN Fetched(Null, CountError(ad), max_retries)
    ELSE IF Falsy(resp.bid) \/ Falsy(resp.ask) THEN Fetched(Null, ad, max_retries)
    ELSE IF resp.bid >= resp.ask THEN Fetched(Null, ad, max_retries)
    ELSE Fetched(MakeQuote("kraken", symbol, resp, t), ad, resp.fails + 1)

KrakenFetchTickerLocked(ad, symbol, resp, t) ==
    IF ~ad.exchange \/ ~ad.connected THEN Fetched(Null, ad, 0)
    ELSE IF resp.fails >= max_retries THEN Fetched(Null, CountError(ad), max_retries)
    ELSE IF Falsy(resp.bid) \/ Falsy(resp.ask) THEN Fetched(Null, ad, resp.fails + 1)
    ELSE IF resp.bid > resp.ask THEN Fetched(Null, ad, resp.fails + 1)
    ELSE Fetched(MakeQuote("kraken", symbol, resp, t), ad, resp.fails + 1)

KrakenFetchTicker(ad, symbol, resp, t) ==
    IF ~ad.exchange \/ ~ad.connected THEN Fetched(Null, ad, 0)
    ELSE IF resp.fails >= max_retries THEN Fetched(Null, CountError(ad), max_retries)
    ELSE IF Falsy(resp.bid) \/ Falsy(resp.ask) THEN Fetched(Null, ad, resp.fails + 1)
    ELSE IF resp.bid >= resp.ask THEN Fetched(Null, ad, resp.fails + 1)
    ELSE Fetched(MakeQuote("kraken", symbol, resp, t), ad, resp.fails + 1)

BitfinexFetchTicker(ad, symbol, resp, t) ==
    IF ~ad.exchange \/ ~ad.connected THEN Fetched(Null, ad, 0)
    ELSE IF resp.fails >= 1 THEN Fetched(Null, CountError(ad), 1)
    ELSE IF Falsy(resp.bid) \/ Falsy(resp.ask) THEN Fetched(Null, ad, 1)
    ELSE IF resp.bid >= resp.ask THEN Fetched(Null, ad, 1)
    ELSE Fetched(MakeQuote("bitfinex", symbol, resp, t), ad, 1)

(* KuCoinExchange: a fetch that fails after the bounded retry, a missing bid
   or ask, a non-positive price or a crossed book gives null and counts an
   error *)
KuCoinFetchTicker(ad, symbol, resp, t) ==
    IF resp.fails >= max_retries THEN Fetched(Null, CountError(ad), max_retries)
    ELSE IF Falsy(resp.bid) \/ Falsy(resp.ask) \/ resp.bid <= 0 \/ resp.ask <= 0
            \/ resp.bid >= resp.ask
         THEN Fetched(Null, CountError(ad), resp.fails + 1)
    ELSE Fetched(MakeQuote("kucoin", symbol, resp, t), ad, resp.fails + 1)

(* exchange.fetch_ticker(symbol) of the adapter registered under name *)
FetchTicker(name, ad, symbol, resp, t) ==
    CASE name = "kraken" -> KrakenFetchTicker(ad, symbol, resp, t)
      [] name = "bitfinex" -> BitfinexFetchTicker(ad, symbol, resp, t)
      [] OTHER -> KuCoinFetchTicker(ad, symbol, resp, t)

(* exchanges.py ExchangeManager.fetch_ticker: no adapter state *)
LegacyFetchTicker(exchange_name, symbol, resp, t) ==
    IF resp.fails >= max_retries THEN Null
    ELSE IF Falsy(resp.bid) \/ Falsy(resp.ask) THEN Null
    ELSE IF resp.bid >= resp.ask THEN Null
    ELSE MakeQuote(exchange_name, symbol, resp, t)

(* the upstream requests of one exchanges.py fetch_ticker: the loop over
   range(max_retries) breaks at the first request that answers *)
LegacyFetchRequests(resp) ==
    IF resp.fails >= max_retries THEN max_retries ELSE resp.fails + 1

-----------------------------------------------------------------------------
(* ArbitrageOpportunity and its derived fields (__post_init__) *)

Zero == Rat(0, 1)
One == Rat(1, 1)

SpreadPercent(spread, buy_price) == Rat(spread * 100, buy_price)

CalculateConfidence(o) ==
    LET base_confidence == Rat(4, 10)
        spread_factor == RMin(RMul(o.spread_percent, Rat(1, 3)), Rat(25, 100))
        min_volume == Min(o.buy_volume, o.sell_volume)
        volume_factor ==
            IF ~Falsy(o.buy_volume) /\ ~Falsy(o.sell_volume)
            THEN IF SymbolBase(o.symbol) = "BTC"
                 THEN RMin(Rat(min_volume, 2 * VolScale), Rat(15, 100))
                 ELSE IF SymbolBase(o.symbol) = "ETH"
                 THEN RMin(Rat(min_volume, 10 * VolScale), Rat(15, 100))
                 ELSE RMin(Rat(min_volume, 100 * VolScale), Rat(15, 100))
            ELSE Zero
        reliable_exchanges == {"kraken"}
        good_exchanges == {"kucoin", "bitfinex"}
        reliability_factor ==
            IF o.buy_exchange \in reliable_exchanges /\ o.sell_exchange \in reliable_exchanges
            THEN Rat(15, 100)
            ELSE IF o.buy_exchange \in reliable_exchanges \/ o.sell_exchange \in reliable_exchanges
            THEN Rat(10, 100)
            ELSE IF o.buy_exchange \in good_exchanges /\ o.sell_exchange \in good_exchanges
            THEN Rat(5, 100)
            ELSE Zero
    IN  RMin(One, RAdd(RAdd(base_confidence, spread_factor),
                       RAdd(volume_factor, reliability_factor)))

VolumeLimit(base) ==
    CASE base = "BTC" -> 50
      [] base = "ETH" -> 500
      [] base \in {"XRP", "ADA"} -> 100000
      [] base = "LTC" -> 1000
      [] OTHER -> 10000

CalculateProfitPotential(o) ==
    IF Falsy(o.buy_volume) \/ Falsy(o.sell_volume) THEN Zero
    ELSE LET max_volume == VolumeLimit(SymbolBase(o.symbol))
             tradeable_volume == Min(Min(o.buy_volume, o.sell_volume), max_volume)
             effective_spread == RMul(Rat(o.spread, PriceScale), Rat(9, 10))
         IN  RMul(effective_spread, Rat(tradeable_volume, VolScale))

EstimateExecutionTime(o) ==
    LET base_time == Rat(30, 1)
        spread_factor == RMax(Rat(1, 2), RSub(Rat(2, 1), RMul(o.spread_percent, Rat(2, 1))))
        liquidity_factor ==
            IF SymbolBase(o.symbol) \in {"BTC", "ETH"} THEN Rat(7, 10) ELSE One
    IN  RMul(RMul(base_time, spread_factor), liquidity_factor)

AssessRiskLevelInclusive(o) ==
    IF RLe(One, o.spread_percent) THEN "high"
    ELSE IF RLe(Rat(5, 10), o.spread_percent) THEN "medium-high"
    ELSE IF RLe(Rat(2, 10), o.spread_percent) THEN "medium"
    ELSE IF RLe(Rat(1, 10), o.spread_percent) THEN "medium-low"
    ELSE "low"

AssessRiskLevel(o) ==
    IF RLt(One, o.spread_percent) THEN "high"
    ELSE IF RLt(Rat(5, 10), o.spread_percent) THEN "medium-high"
    ELSE IF RLt(Rat(2, 10), o.spread_percent) THEN "medium"
    ELSE IF RLt(Rat(1, 10), o.spread_percent) THEN "medium-low"
    ELSE "low"

MakeOpportunity(symbol, buy_exchange, sell_exchange, buy_price, sell_price, spread, spread_percent, t, buy_volume, sell_volume) ==
    LET raw == [id |-> <<symbol, buy_exchange, sell_exchange, t>>,
                symbol |-> symbol,
                buy_exchange |-> buy_exchange, sell_exchange |-> sell_exchange,
                buy_price |-> buy_price, sell_price |-> sell_price,
                spread |-> spread, spread_percent |-> spread_percent,
                timestamp |-> t,
                buy_volume |-> buy_volume, sell_volume |-> sell_volume]
    IN  [id |-> raw.id, symbol |-> symbol,
         buy_exchange |-> buy_exchange, sell_exchange |-> sell_exchange,
         buy_price |-> buy_price, sell_price |-> sell_price,
         spread |-> spread, spread_percent |-> spread_percent,
         timestamp |-> t,
         buy_volume |-> buy_volume, sell_volume |-> sell_volume,
         confidence_score |-> CalculateConfidence(raw),
         profit_potential |-> CalculateProfitPotential(raw),
         execution_time_estimate |-> EstimateExecutionTime(raw),
         risk_level |-> AssessRiskLevel(raw),
         historical_frequency |-> Zero]

-----------------------------------------------------------------------------
(* ArbitrageDetector: pairwise comparison *)

SpreadQualifiesAnySpread(spread, spread_percent, minsp) ==
    spread > 0

SpreadQualifiesStrict(spread, spread_percent, minsp) ==
    spread > 0 /\ RLt(Rat(minsp, PctScale), spread_percent)

SpreadQualifiesEitherWay(spread, spread_percent, minsp) ==
    spread # 0

(* the test `spread > 0 and spread_percent >= self.min_spread_percent` *)
SpreadQualifies(spread, spread_percent, minsp) ==
    spread > 0 /\ RLe(Rat(minsp, PctScale), spread_percent)

CheckArbitragePair(symbol, buy_exchange, buy_quote, sell_exchange, sell_quote, minsp, t) ==
    LET buy_price == buy_quote.ask
        sell_price == sell_quote.bid
        spread == sell_price - buy_price
        spread_percent == SpreadPercent(spread, buy_price)
    IN  IF buy_price <= 0 \/ sell_price <= 0 THEN <<>>
        ELSE IF SpreadQualifies(spread, spread_percent, minsp)
             THEN <<MakeOpportunity(symbol, buy_exchange, sell_exchange, buy_price,
                                    sell_price, spread, spread_percent, t,
                                    buy_quote.ask_volume, sell_quote.bid_volume)>>
             ELSE <<>>

(* the nested loops without the skip of i >= j *)
RECURSIVE PairLoopUnskipped(_, _, _)
PairLoopUnskipped(n, i, j) ==
    IF i > n THEN <<>>
    ELSE IF j > n THEN PairLoopUnskipped(n, i + 1, 1)
    ELSE (IF i = j THEN <<>> ELSE <<<<i, j>>>>) \o PairLoopUnskipped(n, i, j + 1)

(* the index pairs visited by the two nested loops, `if i >= j: continue` *)
RECURSIVE PairLoop(_, _, _)
PairLoop(n, i, j) ==
    IF i > n THEN <<>>
    ELSE IF j > n THEN PairLoop(n, i + 1, 1)
    ELSE (IF i >= j THEN <<>> ELSE <<<<i, j>>>>) \o PairLoop(n, i, j + 1)

RECURSIVE Flatten(_)
Flatten(seqs) == IF seqs = <<>> THEN <<>> ELSE Head(seqs) \o Flatten(Tail(seqs))

(* keys of all_quotes in insertion order: the order of the fan-out tasks *)
QuotingExchanges(symbol, all_quotes) ==
    SelectSeq(ExchangeOrder,
              LAMBDA e : e \in DOMAIN all_quotes /\ symbol \in DOMAIN all_quotes[e])

OneDirection(symbol, all_quotes, minsp, t, buy_exchange, sell_exchange) ==
    CheckArbitragePair(symbol, buy_exchange, all_quotes[buy_exchange][symbol],
                       sell_exchange, all_quotes[sell_exchange][symbol], minsp, t)

BothDirections(symbol, all_quotes, minsp, t, buy_exchange, sell_exchange) ==
    CheckArbitragePair(symbol, buy_exchange, all_quotes[buy_exchange][symbol],
                       sell_exchange, all_quotes[sell_exchange][symbol], minsp, t)
    \o CheckArbitragePair(symbol, sell_exchange, all_quotes[sell_exchange][symbol],
                          buy_exchange, all_quotes[buy_exchange][symbol], minsp, t)

AnalyzeSymbol(symbol, all_quotes, minsp, t) ==
    LET exs == QuotingExchanges(symbol, all_quotes)
        pairs == PairLoop(Len(exs), 1, 1)
    IN  IF Len(exs) < 2 THEN <<>>
        ELSE Flatten([k \in 1..Len(pairs) |->
                        BothDirections(symbol, all_quotes, minsp, t,
                                       exs[pairs[k][1]], exs[pairs[k][2]])])

(* opportunities.sort(key=profit_potential, reverse=True): stable *)
RECURSIVE InsertByProfit(_, _)
InsertByProfit(sorted, x) ==
    IF sorted = <<>> THEN <<x>>
    ELSE IF RLt(Head(sorted).profit_potential, x.profit_potential)
         THEN <<x>> \o sorted
         ELSE <<Head(sorted)>> \o InsertByProfit(Tail(sorted), x)

RECURSIVE SortByProfit(_)
SortByProfit(seq) ==
    IF seq = <<>> THEN <<>>
    ELSE InsertByProfit(SortByProfit(SubSeq(seq, 1, Len(seq) - 1)), seq[Len(seq)])

SameRoute(a, b) ==
    a.symbol = b.symbol /\ a.buy_exchange = b.buy_exchange
    /\ a.sell_exchange = b.sell_exchange

UpdateHistoricalDataEveryEntry(history, opps, t) ==
    LET cutoff_time == t - RetentionWindow
        kept == SelectSeq(history \o opps, LAMBDA o : o.timestamp > cutoff_time)
        similar_count(o) == Cardinality({i \in 1..Len(kept) : SameRoute(kept[i], o)})
        total == IF Len(kept) > 1 THEN Len(kept) ELSE 1
        frequency(o) == [o EXCEPT !.historical_frequency = Rat(similar_count(o), total)]
    IN  [history |-> [i \in 1..Len(kept) |-> frequency(kept[i])],
         opportunities |-> [i \in 1..Len(opps) |-> frequency(opps[i])]]

(* the frequency counted over the history as it was before the extend *)
UpdateHistoricalDataBeforeExtend(history, opps, t) ==
    LET cutoff_time == t - RetentionWindow
        keptOld == SelectSeq(history, LAMBDA o : o.timestamp > cutoff_time)
        similar_count(o) == Cardinality({i \in 1..Len(keptOld) : SameRoute(keptOld[i], o)})
        total == IF Len(keptOld) > 1 THEN Len(keptOld) ELSE 1
        withFreq == [i \in 1..Len(opps) |->
                        [opps[i] EXCEPT !.historical_frequency =
                                            Rat(similar_count(opps[i]), total)]]
        keptNew == SelectSeq(withFreq, LAMBDA o : o.timestamp > cutoff_time)
    IN  [history |-> keptOld \o keptNew, opportunities |-> withFreq]

(* _update_historical_data: the new opportunities are the objects appended to
   the history, so their historical_frequency is set there as well *)
UpdateHistoricalData(history, opps, t) ==
    LET cutoff_time == t - RetentionWindow
        kept == SelectSeq(history \o opps, LAMBDA o : o.timestamp > cutoff_time)
        keptOld == SelectSeq(history, LAMBDA o : o.timestamp > cutoff_time)
        similar_count(o) == Cardinality({i \in 1..Len(kept) : SameRoute(kept[i], o)})
        total == IF Len(kept) > 1 THEN Len(kept) ELSE 1
        withFreq == [i \in 1..Len(opps) |->
                        [opps[i] EXCEPT !.historical_frequency =
                                            Rat(similar_count(opps[i]), total)]]
        keptNew == SelectSeq(withFreq, LAMBDA o : o.timestamp > cutoff_time)
    IN  [history |-> keptOld \o keptNew, opportunities |-> withFreq]

(* {opp.id: opp for opp in opportunities}: a later entry replaces an earlier
   one with the same id *)
LiveTable(opps) ==
    [id \in {opps[i].id : i \in 1..Len(opps)} |->
        opps[CHOOSE i \in 1..Len(opps) :
                /\ opps[i].id = id
                /\ \A j \in 1..Len(opps) : opps[j].id = id => j <= i]]

RECURSIVE SumSeq(_)
SumSeq(s) == IF s = <<>> THEN 0 ELSE Head(s) + SumSeq(Tail(s))

MaxDetectionTimes == 100

UpdateDetectionStats(stats, detection_time, opportunities_count) ==
    LET appended == Append(stats.detection_times, detection_time)
        times == IF Len(appended) > MaxDetectionTimes THEN Tail(appended) ELSE appended
    IN  [total_detections |-> stats.total_detections + 1,
         opportunities_found |-> stats.opportunities_found + opportunities_count,
         detection_times |-> times,
         avg_detection_time |-> Rat(SumSeq(times), Len(times))]

-----------------------------------------------------------------------------
(* BaseExchange and ExchangeManager *)

Put(m, k, v) == [x \in DOMAIN m \cup {k} |-> IF x = k THEN v ELSE m[x]]

RECURSIVE FetchAllTickersAborting(_, _, _, _, _)
FetchAllTickersAborting(name, ad, syms, up, t) ==
    IF syms = <<>> THEN [results |-> <<>>, adapter |-> ad]
    ELSE LET f == FetchTicker(name, ad, Head(syms), up[Head(syms)], t)
             rest == FetchAllTickersAborting(name, f.adapter, Tail(syms), up, t)
         IN  IF f.quote = Null THEN [results |-> <<>>, adapter |-> f.adapter]
             ELSE [results |-> Put(rest.results, Head(syms), f.quote),
                   adapter |-> rest.adapter]

(* fetch_all_tickers: up maps each symbol to the upstream response; a
   fetch_ticker of the adapters above never raises, it returns null *)
RECURSIVE FetchAllTickers(_, _, _, _, _)
FetchAllTickers(name, ad, syms, up, t) ==
    IF syms = <<>> THEN [results |-> <<>>, adapter |-> ad]
    ELSE LET f == FetchTicker(name, ad, Head(syms), up[Head(syms)], t)
             rest == FetchAllTickers(name, f.adapter, Tail(syms), up, t)
         IN  [results |-> IF f.quote = Null THEN rest.results
                          ELSE Put(rest.results, Head(syms), f.quote),
              adapter |-> rest.adapter]

max_response_times == 10

(* a window that grows without eviction *)
UpdateResponseTimeUnbounded(ad, response_time) ==
    LET times == Append(ad.response_times, response_time)
    IN  [ad EXCEPT !.response_times = times,
                   !.avg_response_time = Rat(SumSeq(times), Len(times))]

(* update_response_time; response times are whole seconds *)
UpdateResponseTime(ad, response_time) ==
    LET appended == Append(ad.response_times, response_time)
        times == IF Len(appended) > max_response_times THEN Tail(appended)
                 ELSE appended
    IN  [ad EXCEPT !.response_times = times,
                   !.avg_response_time = Rat(SumSeq(times), Len(times))]

(* health_check: probes symbols[0] *)
HealthCheck(name, ad, syms, up, t) ==
    LET test_symbol == IF syms # <<>> THEN syms[1] ELSE "BTC/USD"
        f == FetchTicker(name, ad, test_symbol, up[test_symbol], t)
    IN  [f.adapter EXCEPT !.connected = (f.quote # Null)]

PerformHealthChecks(exs, syms, up, t) ==
    [n \in Sources |-> HealthCheck(n, exs[n], syms, up[n], t)]

GatherPropagatesFirst(tasks, throwing) ==
    \E n \in SeqToSet(tasks) : n \in throwing

(* asyncio.gather(..., return_exceptions=True) hands a task's exception back
   as its result and never raises it *)
GatherPropagates(tasks, throwing) == FALSE

CountTaskErrorsOnAll(exs, tasks, throwing) ==
    [n \in Sources |->
        IF SeqToSet(tasks) \cap throwing # {} THEN CountError(exs[n]) ELSE exs[n]]

(* `if isinstance(result, Exception): self.exchanges[name].status.error_count
   += 1` in the loop over the gathered results *)
CountTaskErrors(exs, tasks, throwing) ==
    [n \in Sources |->
        IF n \in SeqToSet(tasks) /\ n \in throwing THEN CountError(exs[n]) ELSE exs[n]]

HealthCheckDueAlways(t, lhc) == TRUE

(* time.time() - self.last_health_check > self.health_check_interval *)
HealthCheckDue(t, lhc) == t - lhc > health_check_interval

FetchAllQuotesKeepingEmpty(exs, cache, lu, lhc, syms, t, up, throwing) ==
    LET due == HealthCheckDue(t, lhc)
        exs1 == IF due THEN PerformHealthChecks(exs, syms, up, t) ELSE exs
        lhc1 == IF due THEN t ELSE lhc
        tasks == SelectSeq(ExchangeOrder, LAMBDA n : exs1[n].connected)
        ran == [n \in SeqToSet(tasks) \ throwing |->
                   FetchAllTickers(n, exs1[n], syms, up[n], t)]
        exs2 == [n \in Sources |->
                   IF n \in DOMAIN ran THEN ran[n].adapter ELSE exs1[n]]
        exs3 == CountTaskErrors(exs2, tasks, throwing)
        fetched == [n \in DOMAIN ran |-> ran[n].results]
        threw == SeqToSet(tasks) \cap throwing
    IN  IF tasks = <<>>
        THEN [all_quotes |-> <<>>, fetched |-> <<>>, threw |-> {},
              exchanges |-> exs1, quotes_cache |-> cache,
              last_update |-> lu, last_health_check |-> lhc1]
        ELSE IF GatherPropagates(tasks, throwing)
        THEN [all_quotes |-> <<>>, fetched |-> fetched, threw |-> threw,
              exchanges |-> exs2, quotes_cache |-> cache,
              last_update |-> lu, last_health_check |-> lhc1]
        ELSE [all_quotes |-> fetched, fetched |-> fetched, threw |-> threw,
              exchanges |-> exs3, quotes_cache |-> fetched,
              last_update |-> t, last_health_check |-> lhc1]

(* fetch_all_quotes.  up[n][symbol] is the upstream response of source n,
   throwing the sources whose fetch_all_tickers task ends in an exception. *)
FetchAllQuotes(exs, cache, lu, lhc, syms, t, up, throwing) ==
    LET due == HealthCheckDue(t, lhc)
        exs1 == IF due THEN PerformHealthChecks(exs, syms, up, t) ELSE exs
        lhc1 == IF due THEN t ELSE lhc
        tasks == SelectSeq(ExchangeOrder, LAMBDA n : exs1[n].connected)
        ran == [n \in SeqToSet(tasks) \ throwing |->
                   FetchAllTickers(n, exs1[n], syms, up[n], t)]
        exs2 == [n \in Sources |->
                   IF n \in DOMAIN ran THEN ran[n].adapter ELSE exs1[n]]
        exs3 == CountTaskErrors(exs2, tasks, throwing)
        all_quotes == [n \in {m \in DOMAIN ran : ran[m].results # <<>>} |->
                          ran[n].results]
        fetched == [n \in DOMAIN ran |-> ran[n].results]
        threw == SeqToSet(tasks) \cap throwing
    IN  IF tasks = <<>>
        THEN [all_quotes |-> <<>>, fetched |-> <<>>, threw |-> {},
              exchanges |-> exs1, quotes_cache |-> cache,
              last_update |-> lu, last_health_check |-> lhc1]
        ELSE IF GatherPropagates(tasks, throwing)
        THEN [all_quotes |-> <<>>, fetched |-> fetched, threw |-> threw,
              exchanges |-> exs2, quotes_cache |-> cache,
              last_update |-> lu, last_health_check |-> lhc1]
        ELSE [all_quotes |-> all_quotes, fetched |-> fetched, threw |-> threw,
              exchanges |-> exs3, quotes_cache |-> all_quotes,
              last_update |-> t, last_health_check |-> lhc1]

(* get_quote.  resp is the upstream response if the adapter is asked *)
CacheTtl == 30

GetQuoteStale(exs, cache, lu, exchange, symbol, resp, t) ==
    IF exchange \in DOMAIN cache /\ symbol \in DOMAIN cache[exchange]
    THEN [ret |-> cache[exchange][symbol], exchanges |-> exs]
    ELSE IF exchange \in DOMAIN exs /\ exs[exchange].connected
    THEN LET f == FetchTicker(exchange, exs[exchange], symbol, resp, t)
         IN  [ret |-> f.quote, exchanges |-> [exs EXCEPT ![exchange] = f.adapter]]
    ELSE [ret |-> Null, exchanges |-> exs]

GetQuote(exs, cache, lu, exchange, symbol, resp, t) ==
    IF /\ exchange \in DOMAIN cache
       /\ symbol \in DOMAIN cache[exchange]
       /\ t - lu < CacheTtl
    THEN [ret |-> cache[exchange][symbol], exchanges |-> exs]
    ELSE IF exchange \in DOMAIN exs /\ exs[exchange].connected
    THEN LET f == FetchTicker(exchange, exs[exchange], symbol, resp, t)
         IN  [ret |-> f.quote, exchanges |-> [exs EXCEPT ![exchange] = f.adapter]]
    ELSE [ret |-> Null, exchanges |-> exs]

-----------------------------------------------------------------------------
(* ArbitrageDetector.detect_opportunities *)

TooFewSources(all_quotes) == Cardinality(DOMAIN all_quotes) < MinSources

RECURSIVE TableValues(_)
TableValues(table) ==
    IF DOMAIN table = {} THEN <<>>
    ELSE LET k == CHOOSE x \in DOMAIN table : TRUE
         IN  <<table[k]>> \o TableValues([x \in DOMAIN table \ {k} |-> table[x]])

ShortfallResultStale(live) == TableValues(live)

(* `opportunities = []` ... `return opportunities` *)
ShortfallResult(live) == <<>>

ExceptionPropagatesAlways(fetch_raised) == fetch_raised

(* the try/except around the cycle catches every Exception *)
ExceptionPropagates(fetch_raised) == FALSE

(* fetch_raised: fetch_all_quotes ended in an exception; all_quotes: what it
   returned otherwise; detection_time: time.time() - start_time when the
   statistics are updated *)
DetectOpportunitiesIn(detection_time, fetch_raised, all_quotes, live, history, stats, syms, minsp, t) ==
    IF fetch_raised
    THEN [raised |-> ExceptionPropagates(fetch_raised), ret |-> <<>>,
          constructed |-> <<>>,
          opportunities |-> live, history |-> history, stats |-> stats]
    ELSE IF TooFewSources(all_quotes)
    THEN [raised |-> FALSE, ret |-> ShortfallResult(live), constructed |-> <<>>,
          opportunities |-> live, history |-> history, stats |-> stats]
    ELSE LET found == Flatten([k \in 1..Len(syms) |->
                                  AnalyzeSymbol(syms[k], all_quotes, minsp, t)])
             sorted == SortByProfit(found)
             h == UpdateHistoricalData(history, sorted, t)
         IN  [raised |-> FALSE, ret |-> h.opportunities, constructed |-> sorted,
              opportunities |-> LiveTable(h.opportunities),
              history |-> h.history,
              stats |-> UpdateDetectionStats(stats, detection_time, Len(sorted))]

(* a cycle whose exception handler would undo what the cycle did *)
DetectOpportunitiesRolledBack(raise_at, all_quotes, live, history, stats, syms, minsp, t) ==
    [raised |-> FALSE, ret |-> <<>>, opportunities |-> live, history |-> history,
     stats |-> stats]

(* detect_opportunities when a statement after the fetch raises an Exception:
   the except clause logs it and the function returns the local list as it
   is.  raise_at is the statement: the _analyze_symbol call of the last
   symbol, the frequency loop of _update_historical_data (the history is
   already extended and pruned), or the statistics.mean call that ends
   _update_detection_stats (the counters and the window are already
   updated). *)
DetectOpportunitiesRaising(raise_at, all_quotes, live, history, stats, syms, minsp, t) ==
    IF TooFewSources(all_quotes)
    THEN [raised |-> FALSE, ret |-> ShortfallResult(live), opportunities |-> live,
          history |-> history, stats |-> stats]
    ELSE LET earlier == Flatten([k \in 1..(Len(syms) - 1) |->
                                    AnalyzeSymbol(syms[k], all_quotes, minsp, t)])
             found == Flatten([k \in 1..Len(syms) |->
                                  AnalyzeSymbol(syms[k], all_quotes, minsp, t)])
             sorted == SortByProfit(found)
             kept == SelectSeq(history \o sorted,
                               LAMBDA o : o.timestamp > t - RetentionWindow)
             h == UpdateHistoricalData(history, sorted, t)
             counted == UpdateDetectionStats(stats, 0, Len(sorted))
         IN  CASE raise_at = "analysis" ->
                    [raised |-> FALSE, ret |-> earlier, opportunities |-> live,
                     history |-> history, stats |-> stats]
               [] raise_at = "history_update" ->
                    [raised |-> FALSE, ret |-> sorted, opportunities |-> live,
                     history |-> kept, stats |-> stats]
               [] OTHER ->
                    [raised |-> FALSE, ret |-> h.opportunities,
                     opportunities |-> LiveTable(h.opportunities),
                     history |-> h.history,
                     stats |-> [counted EXCEPT
                                   !.avg_detection_time = stats.avg_detection_time]]

(* a cycle whose duration is below the resolution of the clock *)
DetectOpportunities(fetch_raised, all_quotes, live, history, stats, syms, minsp, t) ==
    DetectOpportunitiesIn(0, fetch_raised, all_quotes, live, history, stats, syms, minsp, t)

-----------------------------------------------------------------------------
(* exchanges.py and arbitrage_detector.py: the manager and the detector that
   server.py runs *)

(* the (exchange, symbol) tasks of sources in done that yielded a Quote *)
LegacyResults(done, syms, up, t) ==
    LET got(n) == {symbol \in SeqToSet(syms) :
                       LegacyFetchTicker(n, symbol, up[n][symbol], t) # Null}
    IN  [n \in done |->
            [symbol \in got(n) |-> LegacyFetchTicker(n, symbol, up[n][symbol], t)]]

(* fetch_all_quotes of exchanges.py.  throwing: the sources whose tasks end in
   an exception; pending: the sources whose tasks have not completed when the
   30 s wait_for expires. *)
LegacyFetchAllQuotes(cache, lu, syms, t, up, throwing, pending) ==
    LET fetched == LegacyResults(Sources \ (throwing \cup pending), syms, up, t)
        all_quotes == [n \in {m \in DOMAIN fetched : DOMAIN fetched[m] # {}} |->
                          fetched[n]]
        keys == {<<n, symbol>> : n \in DOMAIN all_quotes, symbol \in SeqToSet(syms)}
        fresh == {k \in keys : k[2] \in DOMAIN all_quotes[k[1]]}
    IN  IF pending # {}
        THEN [all_quotes |-> <<>>, fetched |-> fetched, threw |-> throwing,
              timed_out |-> TRUE, quotes_cache |-> cache, last_update |-> lu]
        ELSE [all_quotes |-> all_quotes, fetched |-> fetched, threw |-> throwing,
              timed_out |-> FALSE,
              quotes_cache |-> [k \in DOMAIN cache \cup fresh |->
                                   IF k \in fresh THEN all_quotes[k[1]][k[2]]
                                   ELSE cache[k]],
              last_update |-> [k \in DOMAIN lu \cup fresh |->
                                  IF k \in fresh THEN t ELSE lu[k]]]

exchange_pairs ==
    <<<<"kraken", "kucoin">>, <<"kraken", "bitfinex">>, <<"kucoin", "bitfinex">>>>

LegacyCheckArbitragePair(symbol, buy_exchange, buy_quote, sell_exchange, sell_quote, minsp, t) ==
    LET buy_price == buy_quote.ask
        sell_price == sell_quote.bid
        spread == sell_price - buy_price
        spread_percent == SpreadPercent(spread, buy_price)
    IN  IF buy_price <= 0 \/ sell_price <= 0 THEN <<>>
        ELSE IF spread > 0 /\ RLe(Rat(minsp, PctScale), spread_percent)
             THEN <<[symbol |-> symbol,
                     buy_exchange |-> buy_exchange, sell_exchange |-> sell_exchange,
                     buy_price |-> buy_price, sell_price |-> sell_price,
                     spread |-> spread, spread_percent |-> spread_percent,
                     timestamp |-> t,
                     buy_volume |-> buy_quote.ask_volume,
                     sell_volume |-> sell_quote.bid_volume]>>
             ELSE <<>>

FindArbitrageForSymbol(symbol, all_quotes, minsp, t) ==
    LET symbol_quotes == {n \in DOMAIN all_quotes : symbol \in DOMAIN all_quotes[n]}
        pair(k) ==
            LET buy_exchange == exchange_pairs[k][1]
                sell_exchange == exchange_pairs[k][2]
            IN  IF buy_exchange \in symbol_quotes /\ sell_exchange \in symbol_quotes
                THEN LegacyCheckArbitragePair(symbol, buy_exchange,
                                              all_quotes[buy_exchange][symbol],
                                              sell_exchange,
                                              all_quotes[sell_exchange][symbol], minsp, t)
                     \o LegacyCheckArbitragePair(symbol, sell_exchange,
                                                 all_quotes[sell_exchange][symbol],
                                                 buy_exchange,
                                                 all_quotes[buy_exchange][symbol], minsp, t)
                ELSE <<>>
    IN  IF Cardinality(symbol_quotes) < 2 THEN <<>>
        ELSE Flatten([k \in 1..Len(exchange_pairs) |-> pair(k)])

(* opportunities.sort(key=spread_percent, reverse=True): stable *)
RECURSIVE InsertBySpread(_, _)
InsertBySpread(sorted, x) ==
    IF sorted = <<>> THEN <<x>>
    ELSE IF RLt(Head(sorted).spread_percent, x.spread_percent)
         THEN <<x>> \o sorted
         ELSE <<Head(sorted)>> \o InsertBySpread(Tail(sorted), x)

RECURSIVE SortBySpread(_)
SortBySpread(seq) ==
    IF seq = <<>> THEN <<>>
    ELSE InsertBySpread(SortBySpread(SubSeq(seq, 1, Len(seq) - 1)), seq[Len(seq)])

(* the cache keyed by symbol_buy_sell *)
LegacyTable(opps) ==
    LET key(o) == <<o.symbol, o.buy_exchange, o.sell_exchange>>
    IN  [k \in {key(opps[i]) : i \in 1..Len(opps)} |->
            opps[CHOOSE i \in 1..Len(opps) :
                    /\ key(opps[i]) = k
                    /\ \A j \in 1..Len(opps) : key(opps[j]) = k => j <= i]]

LegacyDetectOpportunities(fetch_raised, all_quotes, live, syms, minsp, t) ==
    IF fetch_raised
    THEN [raised |-> FALSE, ret |-> <<>>, opportunities |-> live]
    ELSE IF DOMAIN all_quotes = {}
    THEN [raised |-> FALSE, ret |-> <<>>, opportunities |-> live]
    ELSE LET found == Flatten([k \in 1..Len(syms) |->
                                  FindArbitrageForSymbol(syms[k], all_quotes, minsp, t)])
             sorted == SortBySpread(found)
         IN  [raised |-> FALSE, ret |-> sorted, opportunities |-> LegacyTable(sorted)]

-----------------------------------------------------------------------------
(* Inputs *)

TkDown == Ticker(max_retries, 0, 0, 0, 0)
TkLow == Ticker(0, 999, 1000, 100, 100)
TkHigh == Ticker(0, 1006, 1007, 100, 100)

SysTickers == {TkDown, TkLow, TkHigh}

Upstreams == [Sources -> [SeqToSet(symbols) -> SysTickers]]

Throwings == {{}} \cup {{n} : n \in Sources}

(* the sources still pending when the wait_for of exchanges.py expires: none,
   or one (exchanges.py returns nothing whichever source is late) *)
Pendings == {{}, {"kucoin"}}

MinSpreads == {5, 61}

-----------------------------------------------------------------------------
(* The system: one detector and one exchange manager *)

InitWith(syms, minsp) ==
    /\ entry = "api/server.py"
    /\ symbols = syms
    /\ min_spread_percent = minsp
    /\ exchanges = [n \in Sources |-> NewAdapter]
    /\ quotes_cache = <<>>
    /\ last_update = 0
    /\ last_health_check = 0
    /\ opportunities = <<>>
    /\ historical_opportunities = <<>>
    /\ detection_stats = [total_detections |-> 0, opportunities_found |-> 0,
                          detection_times |-> <<>>, avg_detection_time |-> Zero]
    /\ alert_conditions = <<>>
    /\ coroutines = [c \in Coroutines |-> IdleFrame]
    /\ now = StartTime
    /\ last = [op |-> "init"]

(* server.py: the module-level ExchangeManager() of exchanges.py and
   ArbitrageDetector(min_spread_percent=0.05) of arbitrage_detector.py; the
   exchanges are ccxt clients without a status, and there is no history and
   there are no statistics *)
LegacyInitWith(syms, minsp) ==
    /\ entry = "server.py"
    /\ symbols = syms
    /\ min_spread_percent = minsp
    /\ exchanges = [n \in Sources |-> [exchange |-> TRUE]]
    /\ quotes_cache = <<>>
    /\ last_update = <<>>
    /\ last_health_check = 0
    /\ opportunities = <<>>
    /\ historical_opportunities = <<>>
    /\ detection_stats = <<>>
    /\ alert_conditions = <<>>
    /\ coroutines = [c \in Coroutines |-> IdleFrame]
    /\ now = StartTime
    /\ last = [op |-> "init"]

Init ==
    \E minsp \in MinSpreads :
        \/ InitWith(<<"BTC/USD">>, minsp)
        \/ LegacyInitWith(<<"BTC/USD">>, minsp)

ErrorsBounded(exs) == \A n \in Sources : exs[n].error_count <= MaxErrors

(* startup_event awaits initialize() before it starts the services, and the
   API serves requests after startup *)
Started == entry = "api/server.py" /\ \A n \in Sources : exchanges[n].exchange

(* the loop of initialize() stopped by the first source that does not
   connect: the sources after it are not attempted and get no result *)
InitializeUntilFailure(exs, ok, raising) ==
    LET attempted == {n \in Sources :
                         \A i \in 1..Len(ExchangeOrder) :
                             ExchangeOrder[i] = n =>
                                 \A j \in 1..(i - 1) : ok[ExchangeOrder[j]]}
    IN  [results |-> [n \in attempted |-> ok[n] /\ n \notin raising],
         exchanges |-> [n \in Sources |->
                           IF n \in attempted THEN Connect(exs[n], ok[n]).adapter
                           ELSE exs[n]]]

(* the loop of initialize(): ok[n] is whether the connect() of n succeeds,
   raising the sources whose connect() ends in an exception instead of
   returning false (the connect() of kraken and bitfinex catch every
   Exception themselves) *)
InitializeResults(exs, ok, raising) ==
    LET res == [n \in Sources |-> Connect(exs[n], ok[n])]
    IN  [results |-> [n \in Sources |-> IF n \in raising THEN FALSE ELSE res[n].ok],
         exchanges |-> [n \in Sources |-> res[n].adapter]]

(* ExchangeManager.initialize *)
Initialize ==
    \E ok \in [Sources -> BOOLEAN], raising \in {{}, {"kucoin"}} :
    \E res \in {InitializeResults(exchanges, ok, raising)} :
        /\ entry = "api/server.py"
        /\ ~Started
        /\ \A n \in raising : ~ok[n]
        /\ ErrorsBounded(res.exchanges)
        /\ exchanges' = res.exchanges
        /\ last' = [op |-> "initialize", results |-> res.results,
                    raising |-> raising]
        /\ UNCHANGED <<fixed, quotes_cache, last_update,
                       last_health_check, opportunities, historical_opportunities,
                       detection_stats, now>>

(* one cycle of arbitrage_detection_service up to the return of
   detect_opportunities, the upstream responses drawn from ups, at most
   `cycles` cycles that reach the analysis; what becomes of the frame of
   the service is left to the caller *)
DetectFrom(ups, throwings, cycles) ==
    /\ Started
    /\ \/ \E d \in {DetectOpportunities(TRUE, <<>>, opportunities,
                                         historical_opportunities, detection_stats,
                                         symbols, min_spread_percent, now)} :
             /\ last' = [op |-> "detect", fetch_raised |-> TRUE, raised |-> d.raised,
                         snapshot |-> <<>>, fetched |-> <<>>, threw |-> {},
                         ret |-> d.ret, t |-> now]
             /\ opportunities' = d.opportunities
             /\ historical_opportunities' = d.history
             /\ detection_stats' = d.stats
             /\ UNCHANGED <<entry, symbols, min_spread_percent, alert_conditions,
                            exchanges, quotes_cache,
                            last_update, last_health_check, now>>
       \/ \E up \in ups, throwing \in throwings :
             \E fa \in {FetchAllQuotes(exchanges, quotes_cache, last_update,
                                         last_health_check, symbols, now, up, throwing)} :
             /\ ErrorsBounded(fa.exchanges)
             /\ TooFewSources(fa.all_quotes)
                \/ detection_stats.total_detections < cycles
             /\ \E d \in {DetectOpportunities(FALSE, fa.all_quotes, opportunities,
                                           historical_opportunities, detection_stats,
                                           symbols, min_spread_percent, now)} :
                 /\ exchanges' = fa.exchanges
                 /\ quotes_cache' = fa.quotes_cache
                 /\ last_update' = fa.last_update
                 /\ last_health_check' = fa.last_health_check
                 /\ opportunities' = d.opportunities
                 /\ historical_opportunities' = d.history
                 /\ detection_stats' = d.stats
                 /\ last' = [op |-> "detect", fetch_raised |-> FALSE, raised |-> d.raised,
                             snapshot |-> fa.all_quotes, fetched |-> fa.fetched,
                             threw |-> fa.threw, ret |-> d.ret, t |-> now]
                 /\ UNCHANGED <<entry, symbols, min_spread_percent, alert_conditions,
                                now>>

DetectWith(throwings) ==
    DetectFrom(Upstreams, throwings, MaxCycles) /\ UNCHANGED coroutines

(* GET /quotes: fetch_all_quotes called by the API *)
GetLiveQuotes ==
    /\ Started
    /\ \E up \in Upstreams, throwing \in Throwings :
        \E fa \in {FetchAllQuotes(exchanges, quotes_cache, last_update,
                                    last_health_check, symbols, now, up, throwing)} :
            /\ ErrorsBounded(fa.exchanges)
            /\ exchanges' = fa.exchanges
            /\ quotes_cache' = fa.quotes_cache
            /\ last_update' = fa.last_update
            /\ last_health_check' = fa.last_health_check
            /\ last' = [op |-> "fetch_all_quotes", fetch_raised |-> FALSE,
                        raised |-> FALSE, snapshot |-> fa.all_quotes,
                        fetched |-> fa.fetched, threw |-> fa.threw,
                        timed_out |-> FALSE,
                        due |-> HealthCheckDue(now, last_health_check)]
            /\ UNCHANGED <<fixed, opportunities,
                           historical_opportunities, detection_stats, now>>

(* health_monitoring_service: perform_health_checks *)
HealthMonitoring ==
    /\ Started
    /\ \E up \in Upstreams :
        \E exs \in {PerformHealthChecks(exchanges, symbols, up, now)} :
            /\ ErrorsBounded(exs)
            /\ exchanges' = exs
            /\ last_health_check' = now
            /\ last' = [op |-> "perform_health_checks"]
            /\ UNCHANGED <<fixed, quotes_cache, last_update,
                           opportunities, historical_opportunities, detection_stats,
                           now>>

(* a day passes between calls; only detector.py compares timestamps a day
   apart (the retention window) *)
DayPasses ==
    /\ entry = "api/server.py"
    /\ now < StartTime + RetentionWindow
    /\ now' = now + RetentionWindow
    /\ UNCHANGED <<fixed, exchanges, quotes_cache, last_update,
                   last_health_check, opportunities, historical_opportunities,
                   detection_stats, last>>

(* the detection loop alone; no fetch_all_tickers task raises *)
Detect == DetectWith({{}})

(* server.py: one detect_opportunities() of arbitrage_detector.py *)
LegacyDetectCycle(ups, pendings) ==
    /\ entry = "server.py"
    /\ \/ \E d \in {LegacyDetectOpportunities(TRUE, <<>>, opportunities, symbols,
                                               min_spread_percent, now)} :
             /\ last' = [op |-> "detect", fetch_raised |-> TRUE, raised |-> d.raised,
                         snapshot |-> <<>>, fetched |-> <<>>, threw |-> {},
                         ret |-> d.ret]
             /\ opportunities' = d.opportunities
             /\ UNCHANGED <<entry, symbols, min_spread_percent, alert_conditions,
                            exchanges,
                            quotes_cache, last_update, last_health_check,
                            historical_opportunities, detection_stats, now>>
       \/ \E up \in ups, pending \in pendings :
             \E fa \in {LegacyFetchAllQuotes(quotes_cache, last_update, symbols, now,
                                               up, {}, pending)} :
             \E d \in {LegacyDetectOpportunities(FALSE, fa.all_quotes, opportunities,
                                                  symbols, min_spread_percent, now)} :
                 /\ quotes_cache' = fa.quotes_cache
                 /\ last_update' = fa.last_update
                 /\ opportunities' = d.opportunities
                 /\ last' = [op |-> "detect", fetch_raised |-> FALSE, raised |-> d.raised,
                             snapshot |-> fa.all_quotes, fetched |-> fa.fetched,
                             threw |-> fa.threw, ret |-> d.ret]
                 /\ UNCHANGED <<entry, symbols, min_spread_percent, alert_conditions,
                                exchanges,
                                last_health_check, historical_opportunities,
                                detection_stats, now>>

LegacyDetect == LegacyDetectCycle(Upstreams, Pendings) /\ UNCHANGED coroutines

(* server.py: get_live_quotes() of exchanges.py *)
LegacyGetLiveQuotes ==
    /\ entry = "server.py"
    /\ \E up \in Upstreams, throwing \in Throwings, pending \in Pendings :
        \E fa \in {LegacyFetchAllQuotes(quotes_cache, last_update, symbols, now,
                                          up, throwing, pending)} :
            /\ quotes_cache' = fa.quotes_cache
            /\ last_update' = fa.last_update
            /\ last' = [op |-> "fetch_all_quotes", fetch_raised |-> FALSE,
                        raised |-> FALSE, snapshot |-> fa.all_quotes,
                        fetched |-> fa.fetched, threw |-> fa.threw,
                        timed_out |-> fa.timed_out]
            /\ UNCHANGED <<fixed, exchanges,
                           last_health_check, opportunities, historical_opportunities,
                           detection_stats, now>>

Next ==
    \/ Initialize
    \/ Detect
    \/ LegacyDetect
    \/ DayPasses

Spec == Init /\ [][Next]_vars

(* the exchange manager driven by the API and the health service *)
NextManager ==
    \/ Initialize
    \/ GetLiveQuotes
    \/ HealthMonitoring
    \/ LegacyGetLiveQuotes
    \/ DayPasses

SpecManager == Init /\ [][NextManager]_vars

-----------------------------------------------------------------------------
(* One adapter at a time: connect() and fetch_ticker() on any upstream
   response *)

AdapterTickers ==
    {Ticker(max_retries, 0, 0, 0, 0),     \* every request raises
     Ticker(1, 999, 1000, 0, 0),          \* the first request raises
     Ticker(2, 0, 1000, 0, 0),            \* two requests raise, then no bid
     Ticker(0, 999, 1000, 0, 0),
     Ticker(0, 0, 1000, 0, 0),            \* bid missing
     Ticker(0, 999, 0, 0, 0),             \* ask missing
     Ticker(0, 1000, 1000, 0, 0),         \* locked
     Ticker(0, 1007, 1000, 0, 0),         \* crossed
     Ticker(0, -1, 1000, 0, 0),           \* negative bid
     Ticker(0, -5, -1, 0, 0)}             \* negative bid and ask

AdapterConnect ==
    \E n \in Sources, ok \in BOOLEAN :
        /\ entry = "api/server.py"
        /\ \E c \in {Connect(exchanges[n], ok)} :
            /\ c.adapter.error_count <= MaxErrors
            /\ exchanges' = [exchanges EXCEPT ![n] = c.adapter]
            /\ last' = [op |-> "connect", source |-> n, ok |-> c.ok,
                        before |-> exchanges[n]]
            /\ UNCHANGED <<fixed, quotes_cache, last_update,
                           last_health_check, opportunities, historical_opportunities,
                           detection_stats, now>>

AdapterFetchTicker ==
    \E n \in Sources, symbol \in SeqToSet(symbols), resp \in AdapterTickers :
        /\ entry = "api/server.py"
        /\ \E f \in {FetchTicker(n, exchanges[n], symbol, resp, now)} :
            /\ f.adapter.error_count <= MaxErrors
            /\ exchanges' = [exchanges EXCEPT ![n] = f.adapter]
            /\ last' = [op |-> "fetch_ticker", source |-> n, symbol |-> symbol,
                        resp |-> resp, quote |-> f.quote, requests |-> f.requests,
                        before |-> exchanges[n]]
            /\ UNCHANGED <<fixed, quotes_cache, last_update,
                           last_health_check, opportunities, historical_opportunities,
                           detection_stats, now>>

(* exchanges.py: fetch_ticker(exchange_name, symbol) *)
AdapterLegacyFetchTicker ==
    \E n \in Sources, symbol \in SeqToSet(symbols), resp \in AdapterTickers :
        /\ entry = "server.py"
        /\ last' = [op |-> "legacy_fetch_ticker", source |-> n, symbol |-> symbol,
                    resp |-> resp, quote |-> LegacyFetchTicker(n, symbol, resp, now),
                    requests |-> LegacyFetchRequests(resp)]
        /\ UNCHANGED <<fixed, exchanges, quotes_cache,
                       last_update, last_health_check, opportunities,
                       historical_opportunities, detection_stats, now>>

(* health_check() of one adapter, as perform_health_checks runs it; resp is
   what the upstream answers if it is asked for symbols[0] *)
AdapterHealthCheck ==
    \E n \in Sources, resp \in AdapterTickers :
        /\ entry = "api/server.py"
        /\ \E ad \in {HealthCheck(n, exchanges[n], symbols,
                                   [symbol \in SeqToSet(symbols) |-> resp], now)} :
            /\ ad.error_count <= MaxErrors
            /\ exchanges' = [exchanges EXCEPT ![n] = ad]
            /\ last' = [op |-> "health_check", source |-> n, symbol |-> symbols[1],
                        resp |-> resp, before |-> exchanges[n]]
            /\ UNCHANGED <<fixed, quotes_cache, last_update,
                           last_health_check, opportunities, historical_opportunities,
                           detection_stats, now>>

NextAdapter ==
    \/ AdapterConnect
    \/ AdapterFetchTicker
    \/ AdapterLegacyFetchTicker
    \/ AdapterHealthCheck

SpecAdapter == Init /\ [][NextAdapter]_vars

-----------------------------------------------------------------------------
(* The detector on any snapshot, also one no adapter would deliver: each
   source quotes the symbol or not *)

QuoteLow == Ticker(0, 999, 1000, 0, 0)
QuoteHigh == Ticker(0, 1006, 1007, 0, 0)
QuoteTop == Ticker(0, 1010, 1011, 0, 0)
QuoteX == Ticker(0, 10000, 10000, 0, 0)
QuoteY == Ticker(0, 10100, 9900, 0, 0)
QuoteNegative == Ticker(0, -5, -1, 0, 0)

AnalyzeQuotes == {QuoteLow, QuoteHigh, QuoteTop, QuoteX, QuoteY, QuoteNegative}

AnalyzeSnapshots ==
    UNION {[quoting -> [SeqToSet(symbols) -> AnalyzeQuotes]] : quoting \in SUBSET Sources}

AnalyzeMinSpreads == {5, 60, 61}

InitAnalyze == \E minsp \in AnalyzeMinSpreads : InitWith(<<"BTC/USD">>, minsp)

(* detect_opportunities on one of the given snapshots *)
AnalyzeFrom(snapshots) ==
    \E given \in snapshots :
    \E all_quotes \in {[n \in DOMAIN given |->
                          [symbol \in SeqToSet(symbols) |->
                              MakeQuote(n, symbol, given[n][symbol], now)]]} :
    \E d \in {DetectOpportunities(FALSE, all_quotes, opportunities,
                                  historical_opportunities, detection_stats,
                                  symbols, min_spread_percent, now)} :
        /\ opportunities' = d.opportunities
        /\ historical_opportunities' = d.history
        /\ detection_stats' = d.stats
        /\ last' = [op |-> "analyze", fetch_raised |-> FALSE, raised |-> d.raised,
                    snapshot |-> all_quotes, constructed |-> d.constructed,
                    ret |-> d.ret, t |-> now]
        /\ UNCHANGED <<fixed, exchanges, quotes_cache, last_update,
                       last_health_check, now>>

AnalyzeSnapshot == last.op = "init" /\ AnalyzeFrom(AnalyzeSnapshots)

NextAnalyze == AnalyzeSnapshot

SpecAnalyze == InitAnalyze /\ [][NextAnalyze]_vars

-----------------------------------------------------------------------------
(* Coroutines on one event loop.  A coroutine runs alone from one await to
   the next; fetch_all_quotes awaits perform_health_checks() (line 55) and
   the gather of the fetch_all_tickers tasks (line 69), and each task of a
   gather is one step.  Two callers of fetch_all_quotes run side by side:
   the detection service and a GET /quotes request; the health service runs
   perform_health_checks on its own. *)

Callers == {"detector", "api"}

(* lines 58-62: one task for each connected source *)
ConnectedTasks(exs) == SelectSeq(ExchangeOrder, LAMBDA n : exs[n].connected)

GatherFrame(exs) == [pc |-> "gather", tasks |-> ConnectedTasks(exs), results |-> <<>>]

HealthFrame == [pc |-> "health_checks"]

ResultsOfEveryCall(frames, c) ==
    LET others == {d \in Callers \ {c} : frames[d].pc = "gather"}
        seen(n) == {d \in others : n \in DOMAIN frames[d].results}
    IN  [n \in DOMAIN frames[c].results |->
            IF seen(n) # {} THEN frames[CHOOSE d \in seen(n) : TRUE].results[n]
            ELSE frames[c].results[n]]

(* line 69: `results` is a local of the call, it holds what the tasks of
   this call returned *)
GatherResults(frames, c) == frames[c].results

(* lines 71-76: the sources whose task returned a non-empty map *)
CollectQuotes(results) == [n \in {m \in DOMAIN results : results[m] # <<>>} |-> results[n]]

CacheFilledByTask(cache, name, result) == IF result # <<>> THEN Put(cache, name, result) ELSE cache

(* lines 68-80: the cache is assigned once, after the gather; a task that
   ends leaves it alone *)
CacheWhileGathering(cache, name, result) == cache

(* the inputs of the coroutines: every source answers with a valid ticker *)
TaskTickers == {TkLow, TkHigh}

(* fetch_all_quotes returns all_quotes: the cache is assigned (lines 79-80)
   and the caller goes on without an await, GET /quotes to its response and
   detect_opportunities (lines 194-208) to its return *)
FetchReturns(c, assigned, all_quotes, fetched) ==
    /\ quotes_cache' = IF assigned THEN all_quotes ELSE quotes_cache
    /\ last_update' = IF assigned THEN now ELSE last_update
    /\ IF c = "detector"
       THEN \E d \in {DetectOpportunities(FALSE, all_quotes, opportunities,
                                          historical_opportunities, detection_stats,
                                          symbols, min_spread_percent, now)} :
                /\ opportunities' = d.opportunities
                /\ historical_opportunities' = d.history
                /\ detection_stats' = d.stats
                /\ last' = [op |-> "detect", fetch_raised |-> FALSE, raised |-> d.raised,
                            snapshot |-> all_quotes, fetched |-> fetched,
                            threw |-> {}, ret |-> d.ret]
       ELSE /\ last' = [op |-> "fetch_all_quotes", fetch_raised |-> FALSE,
                        raised |-> FALSE, snapshot |-> all_quotes,
                        fetched |-> fetched, threw |-> {}, timed_out |-> FALSE]
            /\ UNCHANGED <<opportunities, historical_opportunities, detection_stats>>

(* lines 57-66 after the health checks, if any: the tasks are made and
   gathered, or there is no task and the call returns at once *)
StartGather(c, exs) ==
    IF ConnectedTasks(exs) = <<>>
    THEN /\ coroutines' = [coroutines EXCEPT ![c] = IdleFrame]
         /\ FetchReturns(c, FALSE, <<>>, <<>>)
    ELSE /\ coroutines' = [coroutines EXCEPT ![c] = GatherFrame(exs)]
         /\ UNCHANGED <<quotes_cache, last_update, opportunities,
                        historical_opportunities, detection_stats, last>>

(* a caller enters fetch_all_quotes (lines 49-69) *)
CallFetchAllQuotes ==
    \E c \in Callers :
        /\ Started
        /\ coroutines[c].pc = "idle"
        /\ c = "detector" => detection_stats.total_detections < MaxCycles
        /\ c = "api" => coroutines["detector"].pc # "idle"
        /\ IF now - last_health_check > health_check_interval
           THEN /\ coroutines' = [coroutines EXCEPT ![c] = HealthFrame]
                /\ UNCHANGED <<quotes_cache, last_update, opportunities,
                               historical_opportunities, detection_stats, last>>
           ELSE StartGather(c, exchanges)
        /\ UNCHANGED <<entry, symbols, min_spread_percent, alert_conditions, exchanges,
                       last_health_check, now>>

(* health_monitoring_service wakes up and calls perform_health_checks *)
CallPerformHealthChecks ==
    /\ Started
    /\ coroutines["health"].pc = "idle"
    /\ coroutines["detector"].pc # "idle"
    /\ coroutines' = [coroutines EXCEPT !["health"] = HealthFrame]
    /\ UNCHANGED <<entry, symbols, min_spread_percent, alert_conditions, exchanges,
                   quotes_cache, last_update, last_health_check, opportunities,
                   historical_opportunities, detection_stats, now, last>>

(* the gather of perform_health_checks returns (lines 98-109): every
   health_check task has run, and fetch_all_quotes goes on to its tasks *)
PerformHealthChecksReturns ==
    \E c \in Coroutines, up \in [Sources -> [SeqToSet(symbols) -> TaskTickers]] :
        /\ coroutines[c].pc = "health_checks"
        /\ \E exs \in {PerformHealthChecks(exchanges, symbols, up, now)} :
            /\ ErrorsBounded(exs)
            /\ exchanges' = exs
            /\ last_health_check' = now
            /\ IF c = "health"
               THEN /\ coroutines' = [coroutines EXCEPT ![c] = IdleFrame]
                    /\ last' = [op |-> "perform_health_checks"]
                    /\ UNCHANGED <<quotes_cache, last_update, opportunities,
                                   historical_opportunities, detection_stats>>
               ELSE StartGather(c, exs)
        /\ UNCHANGED <<entry, symbols, min_spread_percent, alert_conditions, now>>

(* one fetch_all_tickers task of a gather runs *)
FetchAllTickersDone ==
    \E c \in Callers, n \in Sources, up \in [SeqToSet(symbols) -> TaskTickers] :
        /\ coroutines[c].pc = "gather"
        /\ n \in SeqToSet(coroutines[c].tasks) \ DOMAIN coroutines[c].results
        /\ \E f \in {FetchAllTickers(n, exchanges[n], symbols, up, now)} :
            /\ f.adapter.error_count <= MaxErrors
            /\ exchanges' = [exchanges EXCEPT ![n] = f.adapter]
            /\ coroutines' = [coroutines EXCEPT ![c].results = Put(@, n, f.results)]
            /\ quotes_cache' = CacheWhileGathering(quotes_cache, n, f.results)
        /\ UNCHANGED <<entry, symbols, min_spread_percent, alert_conditions, last_update,
                       last_health_check, opportunities, historical_opportunities,
                       detection_stats, now, last>>

(* the gather of fetch_all_quotes returns (lines 69-87) *)
GatherReturns ==
    \E c \in Callers :
        /\ coroutines[c].pc = "gather"
        /\ DOMAIN coroutines[c].results = SeqToSet(coroutines[c].tasks)
        /\ coroutines' = [coroutines EXCEPT ![c] = IdleFrame]
        /\ FetchReturns(c, TRUE, CollectQuotes(GatherResults(coroutines, c)),
                        coroutines[c].results)
        /\ UNCHANGED <<entry, symbols, min_spread_percent, alert_conditions, exchanges,
                       last_health_check, now>>

NextConcurrent ==
    \/ Initialize
    \/ CallFetchAllQuotes
    \/ CallPerformHealthChecks
    \/ PerformHealthChecksReturns
    \/ FetchAllTickersDone
    \/ GatherReturns

InitConcurrent == InitWith(<<"BTC/USD">>, 5)

SpecConcurrent == InitConcurrent /\ [][NextConcurrent]_vars

-----------------------------------------------------------------------------
(* The retained history over more than a day: detection cycles,
   get_analytics, and the clock *)

RECURSIVE RSum(_)
RSum(s) == IF s = <<>> THEN Zero ELSE RAdd(Head(s), RSum(Tail(s)))

RECURSIVE RMaxSeq(_)
RMaxSeq(s) == IF Len(s) = 1 THEN s[1] ELSE RMax(s[1], RMaxSeq(Tail(s)))

Mean(s) == RMul(RSum(s), Rat(1, Len(s)))

HoursPerDay == 24

RecentAlways(current_time, opp) == TRUE

(* `current_time - opp.timestamp < 86400` *)
Recent(current_time, opp) == current_time - opp.timestamp < RetentionWindow

(* get_analytics *)
GetAnalytics(live, history, stats, conditions, current_time) ==
    LET current_opps == TableValues(live)
        recent_opps == SelectSeq(history, LAMBDA opp : Recent(current_time, opp))
        spreads(opps) == [i \in 1..Len(opps) |-> opps[i].spread_percent]
    IN  [current |->
            [total_opportunities |-> Len(current_opps),
             avg_spread |-> IF current_opps # <<>> THEN Mean(spreads(current_opps)) ELSE Zero,
             max_spread |-> IF current_opps # <<>> THEN RMaxSeq(spreads(current_opps)) ELSE Zero,
             total_profit_potential |->
                 RSum([i \in 1..Len(current_opps) |-> current_opps[i].profit_potential]),
             avg_confidence |->
                 IF current_opps # <<>>
                 THEN Mean([i \in 1..Len(current_opps) |-> current_opps[i].confidence_score])
                 ELSE Zero],
         historical_24h |->
            [total_opportunities |-> Len(recent_opps),
             avg_spread |-> IF recent_opps # <<>> THEN Mean(spreads(recent_opps)) ELSE Zero,
             max_spread |-> IF recent_opps # <<>> THEN RMaxSeq(spreads(recent_opps)) ELSE Zero,
             opportunities_per_hour |-> Rat(Len(recent_opps), HoursPerDay)],
         detection_stats |-> stats,
         alert_conditions |-> Len(conditions)]

(* bounds of the clock and of the cycles: the clock shows StartTime plus at
   most MaxWaits waits of the detection service plus at most one day *)
MaxRetentionCycles == 3
MaxWaits == 1

DetectionInterval == 15

(* the detection service sleeps *)
ServiceWaits ==
    /\ entry = "api/server.py"
    /\ (now - StartTime) % RetentionWindow < MaxWaits * DetectionInterval
    /\ now' = now + DetectionInterval
    /\ UNCHANGED <<fixed, exchanges, quotes_cache, last_update, last_health_check,
                   opportunities, historical_opportunities, detection_stats, last>>

(* kraken and bitfinex ask 10.00 and kucoin bids 10.06, wherever they quote *)
RetentionSnapshots ==
    {given \in AnalyzeSnapshots :
        /\ "kraken" \in DOMAIN given
        /\ "bitfinex" \in DOMAIN given => "kucoin" \in DOMAIN given
        /\ \A n \in DOMAIN given, symbol \in SeqToSet(symbols) :
              given[n][symbol] = IF n = "kucoin" THEN QuoteHigh ELSE QuoteLow}

AnalyzeRetained ==
    /\ detection_stats.total_detections < MaxRetentionCycles
    /\ AnalyzeFrom(RetentionSnapshots)

(* GET /analytics, GET /arbitrage: get_analytics() *)
GetAnalyticsCall ==
    /\ entry = "api/server.py"
    /\ last' = [op |-> "get_analytics", t |-> now,
                result |-> GetAnalytics(opportunities, historical_opportunities,
                                        detection_stats, alert_conditions, now)]
    /\ UNCHANGED <<fixed, exchanges, quotes_cache, last_update, last_health_check,
                   opportunities, historical_opportunities, detection_stats, now>>

NextRetention ==
    \/ AnalyzeRetained
    \/ GetAnalyticsCall
    \/ ServiceWaits
    \/ DayPasses

SpecRetention == InitAnalyze /\ [][NextRetention]_vars

-----------------------------------------------------------------------------
(* AlertCondition and the alert registry of the detector *)

risk_levels == <<"low", "medium-low", "medium", "medium-high", "high">>

(* list.index: the position of x, a ValueError if x is not in the list *)
Index(list, x) == CHOOSE i \in 1..Len(list) : list[i] = x

(* an unset symbol filter: None, and the empty string, fail `if self.symbol` *)
Unset == ""

AlertCondition(id, symbol, min_spread, min_profit, min_confidence, preferred, max_risk, enabled) ==
    [id |-> id, name |-> id, symbol |-> symbol, min_spread_percent |-> min_spread,
     min_profit_potential |-> min_profit, min_confidence_score |-> min_confidence,
     preferred_exchanges |-> preferred, max_risk_level |-> max_risk, enabled |-> enabled]

Returns(value) == [raised |-> FALSE, value |-> value]

MatchesSpreadOnly(condition, opportunity) ==
    Returns(condition.enabled
            /\ RLe(condition.min_spread_percent, opportunity.spread_percent))

(* AlertCondition.matches: what it returns, or that it raises *)
Matches(condition, opportunity) ==
    IF ~condition.enabled THEN Returns(FALSE)
    ELSE IF condition.symbol # Unset /\ opportunity.symbol # condition.symbol
    THEN Returns(FALSE)
    ELSE IF RLt(opportunity.spread_percent, condition.min_spread_percent)
    THEN Returns(FALSE)
    ELSE IF RLt(opportunity.profit_potential, condition.min_profit_potential)
    THEN Returns(FALSE)
    ELSE IF RLt(opportunity.confidence_score, condition.min_confidence_score)
    THEN Returns(FALSE)
    ELSE IF /\ condition.preferred_exchanges # <<>>
            /\ opportunity.buy_exchange \notin SeqToSet(condition.preferred_exchanges)
            /\ opportunity.sell_exchange \notin SeqToSet(condition.preferred_exchanges)
    THEN Returns(FALSE)
    ELSE IF condition.max_risk_level \notin SeqToSet(risk_levels)
    THEN [raised |-> TRUE, value |-> FALSE]
    ELSE Returns(Index(risk_levels, opportunity.risk_level)
                    <= Index(risk_levels, condition.max_risk_level))

(* an opportunity as _check_arbitrage_pair builds it: bought at 100.00, sold
   `ticks` hundredths higher, so that spread_percent is ticks / 100 percent *)
Par == 100 * PriceScale

OpportunityAt(symbol, buy_exchange, sell_exchange, ticks, volume, t) ==
    MakeOpportunity(symbol, buy_exchange, sell_exchange, Par, Par + ticks, ticks,
                    SpreadPercent(ticks, Par), t, volume, volume)

(* spread_percent 0.05 ... 1.5: below, on and above every threshold of the
   risk levels, and 0.4 and 0.6 *)
SpreadTicks == {5, 10, 15, 20, 30, 40, 50, 60, 70, 100, 150}

MatchOpportunities ==
    {OpportunityAt(symbol, route[1], route[2], ticks, volume, StartTime) :
        symbol \in {"BTC/USD", "ETH/USD"},
        route \in {<<"kraken", "kucoin">>, <<"kucoin", "bitfinex">>, <<"bitfinex", "kraken">>},
        ticks \in SpreadTicks, volume \in {0, VolScale}}

(* the enabled conditions over every value of each criterion, and one
   disabled condition that has every criterion at its most permissive *)
MatchConditions ==
    {AlertCondition("alert_1", symbol, min_spread, min_profit, min_confidence,
                    preferred, max_risk, TRUE) :
        symbol \in {Unset, "BTC/USD"},
        min_spread \in {Rat(1, 10), Rat(5, 10)},
        min_profit \in {Zero, Rat(1, 2)},
        min_confidence \in {Rat(5, 10), Rat(7, 10)},
        preferred \in {<<>>, <<"bitfinex">>},
        max_risk \in SeqToSet(risk_levels) \cup {"critical"}}
    \cup {AlertCondition("alert_1", Unset, Zero, Zero, Zero, <<>>, "high", FALSE)}

(* condition.matches(opportunity) on any condition and any opportunity *)
MatchesCall ==
    \E condition \in MatchConditions, opportunity \in MatchOpportunities :
        /\ last.op = "init"
        /\ last' = [op |-> "matches", condition |-> condition,
                    opportunity |-> opportunity,
                    result |-> Matches(condition, opportunity)]
        /\ UNCHANGED <<fixed, exchanges, quotes_cache, last_update, last_health_check,
                       opportunities, historical_opportunities, detection_stats, now>>

NextMatches == MatchesCall

SpecMatches == InitConcurrent /\ [][NextMatches]_vars

-----------------------------------------------------------------------------
(* The alert registry: POST /alerts, DELETE /alerts/{id}, and the check_alerts
   pass of the detection service.  alert_conditions is a dict, written here
   as the sequence of its values in insertion order. *)

HasCondition(conditions, id) == \E i \in 1..Len(conditions) : conditions[i].id = id

(* add_alert_condition: `self.alert_conditions[condition.id] = condition` *)
AddAlertCondition(conditions, condition) ==
    IF HasCondition(conditions, condition.id)
    THEN [i \in 1..Len(conditions) |->
             IF conditions[i].id = condition.id THEN condition ELSE conditions[i]]
    ELSE Append(conditions, condition)

(* remove_alert_condition *)
RemoveAlertCondition(conditions, id) == SelectSeq(conditions, LAMBDA c : c.id # id)

(* the (condition, opportunity) pairs in the order of the two loops *)
LoopPairs(conditions, opps) ==
    Flatten([i \in 1..Len(opps) |->
                [j \in 1..Len(conditions) |-> <<conditions[j], opps[i]>>]])

TriggeredFirstMatch(conditions, opps) ==
    Flatten([i \in 1..Len(opps) |->
                LET hits == SelectSeq(conditions, LAMBDA c : Matches(c, opps[i]).value)
                IN  IF hits = <<>> THEN <<>> ELSE <<<<hits[1], opps[i]>>>>])

(* `if condition.matches(opportunity): triggered_alerts.append(...)` *)
Triggered(conditions, opps) ==
    SelectSeq(LoopPairs(conditions, opps), LAMBDA p : Matches(p[1], p[2]).value)

(* check_alerts: the list it returns, or that a matches() in it raised *)
CheckAlerts(conditions, opps) ==
    IF \E i \in 1..Len(opps), j \in 1..Len(conditions) : Matches(conditions[j], opps[i]).raised
    THEN [raised |-> TRUE, triggered |-> <<>>]
    ELSE [raised |-> FALSE, triggered |-> Triggered(conditions, opps)]

AlertIds == {"alert_1", "alert_2"}

(* the conditions a client posts: the defaults of create_alert, a wider one,
   one for ETH/USD on kraken, and one whose max_risk_level is no risk level *)
PostedConditions ==
    UNION {{AlertCondition(id, Unset, Rat(1, 10), Zero, Rat(5, 10), <<>>, "medium-high", TRUE),
            AlertCondition(id, Unset, Rat(5, 10), Zero, Rat(5, 10), <<>>, "high", TRUE),
            AlertCondition(id, "ETH/USD", Rat(1, 10), Zero, Rat(5, 10), <<"kraken">>, "high", TRUE),
            AlertCondition(id, Unset, Rat(1, 10), Zero, Rat(5, 10), <<>>, "critical", TRUE)} :
           id \in AlertIds}

(* the lists detect_opportunities hands to the pass: up to two of a 0.15%
   and a 0.6% BTC/USD and a 1.5% ETH/USD opportunity, all kraken -> kucoin *)
DetectedLists ==
    LET found == {OpportunityAt("BTC/USD", "kraken", "kucoin", 15, VolScale, StartTime),
                  OpportunityAt("BTC/USD", "kraken", "kucoin", 60, VolScale, StartTime),
                  OpportunityAt("ETH/USD", "kraken", "kucoin", 150, VolScale, StartTime)}
    IN  {<<>>} \cup {<<o>> : o \in found}
        \cup {pair \in found \X found : pair[1] # pair[2]}

(* a request to the registry: none, POST /alerts, or DELETE /alerts/{id} of
   a registered id (another id is answered 404 and changes nothing) *)
Requests(conditions) ==
    {[method |-> "NONE"]}
    \cup {[method |-> "POST", condition |-> c] : c \in PostedConditions}
    \cup {[method |-> "DELETE", id |-> id] : id \in {i \in AlertIds : HasCondition(conditions, i)}}

(* create_alert, delete_alert *)
Serve(conditions, request) ==
    IF request.method = "POST" THEN AddAlertCondition(conditions, request.condition)
    ELSE IF request.method = "DELETE" THEN RemoveAlertCondition(conditions, request.id)
    ELSE conditions

RegistryAfterRequest(at_start, after_request) == after_request

(* check_alerts is a plain function without an await, and so are the two
   handlers: a request that arrives while the pass runs is served after the
   pass has returned, so the pass iterates the registry as it was at its
   start *)
RegistryOfPass(at_start, after_request) == at_start

(* a client posts or deletes a condition between two passes *)
AlertRequestFrom(requests) ==
    \E request \in requests \ {[method |-> "NONE"]} :
        /\ entry = "api/server.py"
        /\ alert_conditions' = Serve(alert_conditions, request)
        /\ last' = [op |-> "alert_request", request |-> request]
        /\ UNCHANGED <<entry, symbols, min_spread_percent, coroutines, exchanges,
                       quotes_cache, last_update, last_health_check, opportunities,
                       historical_opportunities, detection_stats, now>>

AlertRequest == AlertRequestFrom(Requests(alert_conditions))

(* the pass of one detection cycle (api/server.py line 397), and the request
   that arrived while it ran, if any *)
CheckAlertsCall ==
    \E given \in DetectedLists, request \in Requests(alert_conditions) :
    \E after_request \in {Serve(alert_conditions, request)} :
        /\ entry = "api/server.py"
        /\ alert_conditions' = after_request
        /\ last' = [op |-> "check_alerts", given |-> given, request |-> request,
                    registered |-> alert_conditions,
                    result |-> CheckAlerts(RegistryOfPass(alert_conditions, after_request),
                                           given)]
        /\ UNCHANGED <<entry, symbols, min_spread_percent, coroutines, exchanges,
                       quotes_cache, last_update, last_health_check, opportunities,
                       historical_opportunities, detection_stats, now>>

NextAlerts ==
    \/ AlertRequest
    \/ CheckAlertsCall

SpecAlerts == InitConcurrent /\ [][NextAlerts]_vars

-----------------------------------------------------------------------------
(* The detection service: the `while True` loop of
   arbitrage_detection_service (api/server.py) and of
   arbitrage_detector_service (server.py).  The frame of the service tells
   where the loop stands, what ended its last cycle and how long it slept. *)

LegacyDetectionInterval == 20
BackOff == 10

AfterCycleUncaught(entry_point, raised) ==
    IF raised THEN [pc |-> "terminated", after |-> "exception", seconds |-> 0]
    ELSE [pc |-> "sleep", after |-> "cycle", seconds |-> DetectionInterval]

(* the end of the try block, `await asyncio.sleep(15)` (20 in server.py), or
   `except Exception`, `await asyncio.sleep(10)` *)
AfterCycle(entry_point, raised) ==
    IF raised THEN [pc |-> "sleep", after |-> "exception", seconds |-> BackOff]
    ELSE [pc |-> "sleep", after |-> "cycle",
          seconds |-> IF entry_point = "api/server.py" THEN DetectionInterval
                      ELSE LegacyDetectionInterval]

(* `while True:` ... `await arbitrage_detector.detect_opportunities()` *)
ServiceStartsCycle ==
    /\ Started \/ entry = "server.py"
    /\ coroutines["detector"].pc = "idle"
    /\ coroutines' = [coroutines EXCEPT !["detector"].pc = "detecting"]
    /\ UNCHANGED <<entry, symbols, min_spread_percent, alert_conditions, exchanges,
                   quotes_cache, last_update, last_health_check, opportunities,
                   historical_opportunities, detection_stats, now, last>>

(* the rest of the cycle: detect_opportunities returns, check_alerts
   (api/server.py only), the broadcasts, which may raise, and the sleep;
   kraken asks 10.00 and kucoin bids 10.06 whenever they answer *)
ServiceEndsCycle ==
    /\ coroutines["detector"].pc = "detecting"
    /\ \E raised \in BOOLEAN :
       \E ups \in {{[n \in Sources |-> [symbol \in SeqToSet(symbols) |->
                       CASE n = "kraken" -> TkLow
                         [] n = "kucoin" -> TkHigh
                         [] OTHER -> tk]] : tk \in SysTickers}} :
        /\ coroutines' = [coroutines EXCEPT !["detector"] = AfterCycle(entry, raised)]
        /\ IF entry = "api/server.py"
           THEN DetectFrom(ups, {{}}, MaxCycles)
           ELSE LegacyDetectCycle(ups, Pendings)
        /\ \E broadcast_raises \in BOOLEAN :
             raised = \/ last'.raised
                      \/ entry = "api/server.py"
                         /\ CheckAlerts(alert_conditions, last'.ret).raised
                      \/ broadcast_raises

(* the sleep is over; the clock of the model is left alone, the frame keeps
   how long the service slept *)
ServiceWakes ==
    /\ coroutines["detector"].pc = "sleep"
    /\ coroutines' = [coroutines EXCEPT !["detector"].pc = "idle"]
    /\ UNCHANGED <<entry, symbols, min_spread_percent, alert_conditions, exchanges,
                   quotes_cache, last_update, last_health_check, opportunities,
                   historical_opportunities, detection_stats, now, last>>

NextService ==
    \/ Initialize
    \/ AlertRequestFrom({r \in Requests(alert_conditions) :
                            /\ r.method = "POST" => r.condition.id = "alert_1"
                            /\ r.method = "POST" => r.condition.min_spread_percent = Rat(1, 10)
                            /\ r.method = "POST" => r.condition.symbol = Unset})
    \/ ServiceStartsCycle
    \/ ServiceEndsCycle
    \/ ServiceWakes

(* the event loop runs a coroutine that is ready, every await of the loop
   completes, and every timer fires *)
SpecService ==
    /\ Init
    /\ [][NextService]_vars
    /\ WF_vars(ServiceStartsCycle)
    /\ WF_vars(ServiceEndsCycle)
    /\ WF_vars(ServiceWakes)

-----------------------------------------------------------------------------
(* The scoring of one directed pair: _check_arbitrage_pair on a buy quote
   that asks 100.00 and a sell quote that bids from 99.90 to 101.50, the two
   volumes absent (0), a hundredth of a unit, one unit, a thousand units, or
   the negative number an upstream may report (no adapter checks volumes) *)

ScoreTicks == {-10, 0, 5, 30, 70, 75, 100, 150}

ScoreVolumes == {0, 1, VolScale, 1000 * VolScale, -2 * VolScale}

ScorePair(symbol, buy_exchange, sell_exchange, ticks, buy_volume, sell_volume, minsp, t) ==
    CheckArbitragePair(symbol, buy_exchange,
                       MakeQuote(buy_exchange, symbol,
                                 Ticker(0, Par - 1, Par, 0, buy_volume), t),
                       sell_exchange,
                       MakeQuote(sell_exchange, symbol,
                                 Ticker(0, Par + ticks, Par + ticks + 1, sell_volume, 0), t),
                       minsp, t)

CheckArbitragePairCall ==
    \E symbol \in {"BTC/USD", "ETH/USD", "XRP/USD"}, ticks \in ScoreTicks :
    \E buy_exchange \in Sources, sell_exchange \in Sources :
    \E buy_volume \in ScoreVolumes, sell_volume \in ScoreVolumes :
        /\ last.op = "init"
        /\ buy_exchange # sell_exchange
        /\ last' = [op |-> "check_arbitrage_pair", symbol |-> symbol,
                    buy_exchange |-> buy_exchange, sell_exchange |-> sell_exchange,
                    ticks |-> ticks, buy_volume |-> buy_volume,
                    sell_volume |-> sell_volume,
                    result |-> ScorePair(symbol, buy_exchange, sell_exchange, ticks,
                                         buy_volume, sell_volume, min_spread_percent, now)]
        /\ UNCHANGED <<fixed, exchanges, quotes_cache, last_update, last_health_check,
                       opportunities, historical_opportunities, detection_stats, now>>

NextScore == CheckArbitragePairCall

SpecScore == InitConcurrent /\ [][NextScore]_vars

-----------------------------------------------------------------------------
(* One adapter tracking two instruments: fetch_all_tickers() on any pair of
   upstream responses: every request raises, a valid ticker, no bid, a
   crossed book *)

InitTickers == InitWith(<<"BTC/USD", "ETH/USD">>, 5)

AdapterFetchAllTickers ==
    \E n \in Sources :
    \E up \in [SeqToSet(symbols) ->
                 SysTickers \cup {Ticker(0, 0, 1000, 0, 0), Ticker(0, 1007, 1000, 0, 0)}] :
        /\ entry = "api/server.py"
        /\ \E f \in {FetchAllTickers(n, exchanges[n], symbols, up, now)} :
            /\ f.adapter.error_count <= MaxErrors
            /\ exchanges' = [exchanges EXCEPT ![n] = f.adapter]
            /\ last' = [op |-> "fetch_all_tickers", source |-> n, up |-> up,
                        results |-> f.results, before |-> exchanges[n]]
            /\ UNCHANGED <<fixed, quotes_cache, last_update,
                           last_health_check, opportunities, historical_opportunities,
                           detection_stats, now>>

NextTickers ==
    \/ AdapterConnect
    \/ AdapterFetchAllTickers

SpecTickers == InitTickers /\ [][NextTickers]_vars

-----------------------------------------------------------------------------
(* GET /quotes/{exchange}/{symbol}: get_quote between the refreshes of the
   cache.  The clock is followed for MaxQuoteWaits steps of 15 s. *)

MaxQuoteWaits == 2

(* fetch_all_quotes with every source answering, or kraken down *)
RefreshQuotes ==
    /\ Started
    /\ \E down \in {{}, {"kraken"}} :
       \E up \in {[n \in Sources |-> [symbol \in SeqToSet(symbols) |->
                      IF n \in down THEN TkDown ELSE TkLow]]} :
       \E fa \in {FetchAllQuotes(exchanges, quotes_cache, last_update,
                                 last_health_check, symbols, now, up, {})} :
            /\ ErrorsBounded(fa.exchanges)
            /\ exchanges' = fa.exchanges
            /\ quotes_cache' = fa.quotes_cache
            /\ last_update' = fa.last_update
            /\ last_health_check' = fa.last_health_check
            /\ last' = [op |-> "fetch_all_quotes", snapshot |-> fa.all_quotes]
            /\ UNCHANGED <<fixed, opportunities,
                           historical_opportunities, detection_stats, now>>

(* time passes between two requests *)
QuoteWaits ==
    /\ entry = "api/server.py"
    /\ now < StartTime + MaxQuoteWaits * DetectionInterval
    /\ now' = now + DetectionInterval
    /\ UNCHANGED <<fixed, exchanges, quotes_cache, last_update, last_health_check,
                   opportunities, historical_opportunities, detection_stats, last>>

(* the exchange of the path is a registered source or not, the symbol is
   tracked or not *)
GetQuoteCall ==
    /\ Started
    /\ \E exchange \in Sources \cup {"binance"},
          symbol \in SeqToSet(symbols) \cup {"ETH/USD"},
          resp \in {TkDown, TkHigh} :
       \E g \in {GetQuote(exchanges, quotes_cache, last_update, exchange, symbol,
                          resp, now)} :
            /\ ErrorsBounded(g.exchanges)
            /\ exchanges' = g.exchanges
            /\ last' = [op |-> "get_quote", exchange |-> exchange, symbol |-> symbol,
                        resp |-> resp, ret |-> g.ret]
            /\ UNCHANGED <<fixed, quotes_cache, last_update, last_health_check,
                           opportunities, historical_opportunities, detection_stats,
                           now>>

NextQuote ==
    \/ Initialize
    \/ RefreshQuotes
    \/ QuoteWaits
    \/ GetQuoteCall

SpecQuote == InitConcurrent /\ [][NextQuote]_vars

-----------------------------------------------------------------------------
(* ExchangeStatus.calculate_health_score, which to_dict() reports: a status
   is connected or not, has counted up to MaxStatusErrors errors and has an
   average response time in seconds *)

MaxStatusErrors == 7

CalculateHealthScoreUnclamped(status) ==
    IF ~status.connected THEN Zero
    ELSE LET error_penalty == RMin(Rat(status.error_count * 5, 100), Rat(3, 10))
             score == RSub(Rat(1, 2), error_penalty)
         IN  IF RLt(status.avg_response_time, One)
             THEN RAdd(score, RMin(RMul(RSub(One, status.avg_response_time),
                                        Rat(2, 10)), Rat(2, 10)))
             ELSE IF RLt(Rat(3, 1), status.avg_response_time)
             THEN RSub(score, RMin(RMul(RSub(status.avg_response_time, Rat(3, 1)),
                                        Rat(1, 10)), Rat(3, 10)))
             ELSE score

CalculateHealthScore(status) ==
    IF ~status.connected THEN Zero
    ELSE LET error_penalty == RMin(Rat(status.error_count * 5, 100), Rat(3, 10))
             score == RSub(Rat(1, 2), error_penalty)
             adjusted ==
                 IF RLt(status.avg_response_time, One)
                 THEN RAdd(score, RMin(RMul(RSub(One, status.avg_response_time),
                                            Rat(2, 10)), Rat(2, 10)))
                 ELSE IF RLt(Rat(3, 1), status.avg_response_time)
                 THEN RSub(score, RMin(RMul(RSub(status.avg_response_time, Rat(3, 1)),
                                            Rat(1, 10)), Rat(3, 10)))
                 ELSE score
         IN  RMax(Zero, RMin(One, adjusted))

CalculateHealthScoreCall ==
    \E connected \in BOOLEAN, error_count \in 0..MaxStatusErrors :
    \E avg_response_time \in {Zero, Rat(1, 2), One, Rat(2, 1), Rat(3, 1), Rat(4, 1),
                              Rat(6, 1), Rat(10, 1)} :
    \E status \in {[connected |-> connected, error_count |-> error_count,
                    avg_response_time |-> avg_response_time]} :
        /\ last.op = "init"
        /\ entry = "api/server.py"
        /\ last' = [op |-> "calculate_health_score", status |-> status,
                    health_score |-> CalculateHealthScore(status)]
        /\ UNCHANGED <<fixed, exchanges, quotes_cache, last_update, last_health_check,
                       opportunities, historical_opportunities, detection_stats, now>>

NextStatus == CalculateHealthScoreCall

SpecStatus == InitConcurrent /\ [][NextStatus]_vars

-----------------------------------------------------------------------------
(* The rolling windows: the response times of an adapter and the detection
   times of the detector.  The run starts after 9 timed requests of the
   kraken adapter and 99 detection cycles, which took 2 s and 1 s in turn,
   and follows the clock for MaxWindowTime seconds more. *)

MaxWindowTime == 6

EarlierTimes(n) == [i \in 1..n |-> 1 + (i % 2)]

InitWindows ==
    /\ entry = "api/server.py"
    /\ symbols = <<"BTC/USD">>
    /\ min_spread_percent = 5
    /\ exchanges = [n \in Sources |->
           [exchange |-> TRUE, connected |-> TRUE, error_count |-> 0,
            response_times |->
                IF n = "kraken" THEN EarlierTimes(max_response_times - 1) ELSE <<>>,
            avg_response_time |->
                IF n = "kraken"
                THEN Rat(SumSeq(EarlierTimes(max_response_times - 1)),
                         max_response_times - 1)
                ELSE Zero]]
    /\ quotes_cache = <<>>
    /\ last_update = 0
    /\ last_health_check = 0
    /\ opportunities = <<>>
    /\ historical_opportunities = <<>>
    /\ detection_stats =
           [total_detections |-> MaxDetectionTimes - 1, opportunities_found |-> 0,
            detection_times |-> EarlierTimes(MaxDetectionTimes - 1),
            avg_detection_time |-> Rat(SumSeq(EarlierTimes(MaxDetectionTimes - 1)),
                                       MaxDetectionTimes - 1)]
    /\ alert_conditions = <<>>
    /\ coroutines = [c \in Coroutines |-> IdleFrame]
    /\ now = StartTime
    /\ last = [op |-> "init"]

(* the request of a fetch_ticker answers after response_time seconds *)
UpdateResponseTimeCall ==
    \E response_time \in {1, 2} :
        /\ now < StartTime + MaxWindowTime
        /\ exchanges' = [exchanges EXCEPT
                            !["kraken"] = UpdateResponseTime(@, response_time)]
        /\ now' = now + response_time
        /\ last' = [op |-> "update_response_time", response_time |-> response_time,
                    before |-> exchanges["kraken"].response_times]
        /\ UNCHANGED <<fixed, quotes_cache, last_update, last_health_check,
                       opportunities, historical_opportunities, detection_stats>>

(* a detection cycle of detection_time seconds on the quotes of one source or
   of two sources without a spread *)
TimedCycle ==
    \E detection_time \in {1, 2}, quoting \in {{"kraken"}, {"kraken", "kucoin"}} :
    \E all_quotes \in {[n \in quoting |-> [symbol \in SeqToSet(symbols) |->
                           MakeQuote(n, symbol, QuoteLow, now)]]} :
    \E d \in {DetectOpportunitiesIn(detection_time, FALSE, all_quotes, opportunities,
                                    historical_opportunities, detection_stats,
                                    symbols, min_spread_percent, now)} :
        /\ now < StartTime + MaxWindowTime
        /\ opportunities' = d.opportunities
        /\ historical_opportunities' = d.history
        /\ detection_stats' = d.stats
        /\ now' = now + detection_time
        /\ last' = [op |-> "timed_cycle", detection_time |-> detection_time,
                    before |-> detection_stats.detection_times, ret |-> d.ret]
        /\ UNCHANGED <<fixed, exchanges, quotes_cache, last_update, last_health_check>>

NextWindows ==
    \/ UpdateResponseTimeCall
    \/ TimedCycle

SpecWindows == InitWindows /\ [][NextWindows]_vars

-----------------------------------------------------------------------------
(* Detection cycles that end in the except clause of detect_opportunities,
   between cycles that do not; such a cycle is followed while the history
   has fewer than MaxHistory entries *)

MaxHistory == 4

InterruptedCycle ==
    \E raise_at \in {"fetch", "analysis", "history_update", "stats_update"} :
    \E given \in RetentionSnapshots :
    \E all_quotes \in {[n \in DOMAIN given |->
                          [symbol \in SeqToSet(symbols) |->
                              MakeQuote(n, symbol, given[n][symbol], now)]]} :
    \E d \in {IF raise_at = "fetch"
              THEN DetectOpportunities(TRUE, <<>>, opportunities,
                                       historical_opportunities, detection_stats,
                                       symbols, min_spread_percent, now)
              ELSE DetectOpportunitiesRaising(raise_at, all_quotes, opportunities,
                                              historical_opportunities, detection_stats,
                                              symbols, min_spread_percent, now)} :
        /\ detection_stats.total_detections < MaxRetentionCycles
        /\ Len(historical_opportunities) < MaxHistory
        /\ opportunities' = d.opportunities
        /\ historical_opportunities' = d.history
        /\ detection_stats' = d.stats
        /\ last' = [op |-> "interrupted_cycle", raise_at |-> raise_at,
                    reached |-> raise_at = "fetch" \/ ~TooFewSources(all_quotes),
                    ret |-> d.ret]
        /\ UNCHANGED <<fixed, exchanges, quotes_cache, last_update,
                       last_health_check, now>>

NextInterrupted ==
    \/ AnalyzeRetained
    \/ InterruptedCycle

SpecInterrupted == InitAnalyze /\ [][NextInterrupted]_vars

-----------------------------------------------------------------------------
(* Properties *)

Qualifies(o) ==
    /\ o.spread = o.sell_price - o.buy_price
    /\ o.spread_percent = SpreadPercent(o.spread, o.buy_price)
    /\ o.spread > 0
    /\ RLe(Rat(min_spread_percent, PctScale), o.spread_percent)

HasRoute(ret, symbol, buy_exchange, sell_exchange) ==
    \E i \in 1..Len(ret) :
        /\ ret[i].symbol = symbol
        /\ ret[i].buy_exchange = buy_exchange
        /\ ret[i].sell_exchange = sell_exchange

(* C1: every opportunity a detection cycle returned, every opportunity in the
   live table and every opportunity in the history has spread > 0 and
   spread_percent >= min_spread_percent. *)
C1_OpportunitiesQualify ==
    /\ \A id \in DOMAIN opportunities : Qualifies(opportunities[id])
    /\ \A i \in 1..Len(historical_opportunities) : Qualifies(historical_opportunities[i])
    /\ last.op = "detect" => \A i \in 1..Len(last.ret) : Qualifies(last.ret[i])

C1_Witness ==
    /\ entry = "api/server.py"
    /\ last.op = "detect"
    /\ last.ret # <<>>
    /\ DOMAIN opportunities # {}
    /\ historical_opportunities # <<>>

(* C2: fetch_ticker of every adapter never returns a Quote with bid >= ask;
   on an upstream ticker with bid >= ask it returns null. *)
C2_NoCrossedQuote ==
    last.op \in {"fetch_ticker", "legacy_fetch_ticker"} =>
        /\ last.quote # Null => last.quote.bid < last.quote.ask
        /\ last.resp.bid >= last.resp.ask => last.quote = Null

C2_Witness ==
    /\ last.op = "fetch_ticker"
    /\ last.before.exchange /\ last.before.connected
    /\ last.resp.fails = 0
    /\ last.resp.bid > 0 /\ last.resp.ask > 0
    /\ last.resp.bid >= last.resp.ask
    /\ last.quote = Null

(* C3: every Quote an adapter returns has bid > 0, ask > 0 and bid < ask. *)
C3_ReturnedQuotesPositive ==
    (last.op = "fetch_ticker" /\ last.quote # Null) =>
        /\ last.quote.bid > 0
        /\ last.quote.ask > 0
        /\ last.quote.bid < last.quote.ask

(* C4: a fetch_ticker that reaches an upstream ticker with a missing bid or
   ask, or with bid >= ask, returns null and has incremented the source's
   error_count. *)
C4_InvalidTickerCountsError ==
    ( /\ last.op = "fetch_ticker"
      /\ last.before.exchange /\ last.before.connected
      /\ last.resp.fails = 0
      /\ Falsy(last.resp.bid) \/ Falsy(last.resp.ask) \/ last.resp.bid >= last.resp.ask )
    => /\ last.quote = Null
       /\ exchanges[last.source].error_count = last.before.error_count + 1

(* C5: when a source's fetch task throws, fetch_all_quotes still returns, and
   its table holds the quotes of every other source whose fetch delivered
   quotes (the fan-out having completed: the wait_for of exchanges.py did
   not expire). *)
C5_ThrowingSourceIsolated ==
    (last.op = "fetch_all_quotes" /\ last.threw # {} /\ ~last.timed_out) =>
        \A n \in DOMAIN last.fetched :
            last.fetched[n] # <<>> =>
                /\ n \in DOMAIN last.snapshot
                /\ last.snapshot[n] = last.fetched[n]

C5_Witness ==
    /\ entry = "api/server.py"
    /\ last.op = "fetch_all_quotes"
    /\ Cardinality(last.threw) = 1
    /\ Cardinality(DOMAIN last.fetched) = 2
    /\ Cardinality(DOMAIN last.snapshot) = 2

(* C6: a detection cycle whose snapshot holds fewer than 2 sources returns
   the empty list and does not raise. *)
C6_ShortfallReturnsEmpty ==
    ( /\ last.op = "detect"
      /\ ~last.fetch_raised
      /\ Cardinality(DOMAIN last.snapshot) < 2 )
    => last.ret = <<>> /\ ~last.raised

C6_Witness ==
    /\ entry = "api/server.py"
    /\ last.op = "detect"
    /\ ~last.fetch_raised
    /\ Cardinality(DOMAIN last.snapshot) = 1
    /\ DOMAIN opportunities # {}
    /\ last.ret = <<>>

(* C7: when fetch_all_quotes ends in an exception, detect_opportunities
   catches it: the call returns the empty list and raises nothing. *)
C7_FetchExceptionCaught ==
    (last.op = "detect" /\ last.fetch_raised) =>
        last.ret = <<>> /\ ~last.raised

C7_Witness ==
    /\ entry = "api/server.py"
    /\ last.op = "detect"
    /\ last.fetch_raised
    /\ last.ret = <<>>
    /\ ~last.raised

(* C8: after every return of detect_opportunities the live table holds
   exactly the opportunities that call returned. *)
C8_LiveTableReplaced ==
    last.op = "detect" =>
        opportunities = IF entry = "server.py" THEN LegacyTable(last.ret)
                        ELSE LiveTable(last.ret)

(* C9: for every tracked symbol and every ordered pair of distinct sources
   quoting it, a positive spread whose percent reaches min_spread_percent
   gives an opportunity for that route; a source with ask 10.00 and one with
   bid 10.06 give one exactly when min_spread_percent <= 0.6. *)
C9_DetectionComplete ==
    last.op = "analyze" =>
        \A k \in 1..Len(symbols) : \A b \in DOMAIN last.snapshot :
        \A s \in DOMAIN last.snapshot :
            LET buy == last.snapshot[b][symbols[k]]
                sell == last.snapshot[s][symbols[k]]
                spread == sell.bid - buy.ask
            IN  b # s =>
                /\ ( /\ spread > 0
                     /\ RLe(Rat(min_spread_percent, PctScale), Rat(spread * 100, buy.ask)) )
                   => HasRoute(last.ret, symbols[k], b, s)
                /\ (buy.ask = 1000 /\ sell.bid = 1006) =>
                       (HasRoute(last.ret, symbols[k], b, s) <=> min_spread_percent <= 60)

C9_Witness ==
    /\ last.op = "analyze"
    /\ min_spread_percent = 60
    /\ \E b \in DOMAIN last.snapshot : \E s \in DOMAIN last.snapshot :
          /\ b # s
          /\ last.snapshot[b][symbols[1]].ask = 1000
          /\ last.snapshot[s][symbols[1]].bid = 1006
          /\ HasRoute(last.ret, symbols[1], b, s)

(* X quotes ask 100.00, bid 100.00 and Y quotes ask 99.00, bid 101.00 *)
GivenXY(x, y, symbol) ==
    /\ x # y
    /\ x \in DOMAIN last.snapshot /\ y \in DOMAIN last.snapshot
    /\ last.snapshot[x][symbol].ask = 10000 /\ last.snapshot[x][symbol].bid = 10000
    /\ last.snapshot[y][symbol].ask = 9900 /\ last.snapshot[y][symbol].bid = 10100

RouteCount(ret, symbol, buy_exchange, sell_exchange, buy_price, sell_price) ==
    Cardinality({i \in 1..Len(ret) :
                    /\ ret[i].symbol = symbol
                    /\ ret[i].buy_exchange = buy_exchange
                    /\ ret[i].sell_exchange = sell_exchange
                    /\ ret[i].buy_price = buy_price
                    /\ ret[i].sell_price = sell_price})

(* C10 as stated: with X and Y as given, only buy X / sell Y gives an
   opportunity, buy Y / sell X gives none. *)
C10_OnlyForwardDirection ==
    last.op = "analyze" =>
        \A x \in Sources : \A y \in Sources : \A k \in 1..Len(symbols) :
            GivenXY(x, y, symbols[k]) =>
                /\ HasRoute(last.ret, symbols[k], x, y)
                /\ ~HasRoute(last.ret, symbols[k], y, x)

(* C10 amended: with X and Y as given (min_spread_percent <= 1), buy X at
   100.00 / sell Y at 101.00 gives one opportunity and buy Y at 99.00 / sell X
   at 100.00 gives one as well. *)
C10_BothDirectionsProfitable ==
    last.op = "analyze" =>
        \A x \in Sources : \A y \in Sources : \A k \in 1..Len(symbols) :
            GivenXY(x, y, symbols[k]) =>
                /\ RouteCount(last.ret, symbols[k], x, y, 10000, 10100) = 1
                /\ RouteCount(last.ret, symbols[k], y, x, 9900, 10000) = 1

C10_Witness ==
    /\ last.op = "analyze"
    /\ \E x \in Sources : \E y \in Sources :
          /\ GivenXY(x, y, symbols[1])
          /\ HasRoute(last.ret, symbols[1], x, y)
          /\ HasRoute(last.ret, symbols[1], y, x)

(* C11: every opportunity of a detection cycle buys at the ask and sells at
   the bid that the tasks of the cycle's own fetch_all_quotes call returned,
   also while a GET /quotes request or a health pass is in flight with other
   quotes *)
C11_OneSnapshotPerCycle ==
    last.op = "detect" /\ ~last.fetch_raised =>
        \A k \in 1..Len(last.ret) :
            LET o == last.ret[k]
            IN  /\ {o.buy_exchange, o.sell_exchange} \subseteq DOMAIN last.fetched
                /\ o.symbol \in DOMAIN last.fetched[o.buy_exchange]
                /\ o.symbol \in DOMAIN last.fetched[o.sell_exchange]
                /\ o.buy_price = last.fetched[o.buy_exchange][o.symbol].ask
                /\ o.sell_price = last.fetched[o.sell_exchange][o.symbol].bid
                /\ last.snapshot = CollectQuotes(last.fetched)

(* a cycle returned opportunities while the GET /quotes request in flight
   held another quote of one of their sources *)
C11_Witness ==
    /\ last.op = "detect"
    /\ last.ret # <<>>
    /\ coroutines["detector"].pc = "idle"
    /\ coroutines["api"].pc = "gather"
    /\ \E k \in 1..Len(last.ret) :
          LET n == last.ret[k].sell_exchange
          IN  /\ n \in DOMAIN coroutines["api"].results
              /\ coroutines["api"].results[n] # last.fetched[n]

(* C12: between any two steps of the event loop (where a reader can run) a
   table changes only by a whole swap: the quote table becomes the complete
   result of the fetch_all_quotes call that returns in that step (every
   non-empty result of its tasks), the live table becomes the table of the
   list that the detection cycle returning in that step returns; no step
   leaves a table partly filled *)
C12_TablesSwappedWhole ==
    [][/\ quotes_cache' # quotes_cache =>
            \E c \in Callers :
                /\ coroutines[c].pc = "gather"
                /\ coroutines'[c].pc = "idle"
                /\ DOMAIN coroutines[c].results = SeqToSet(coroutines[c].tasks)
                /\ quotes_cache' = CollectQuotes(coroutines[c].results)
                /\ quotes_cache' = last'.snapshot
       /\ opportunities' # opportunities =>
            /\ coroutines["detector"].pc = "gather"
            /\ coroutines'["detector"].pc = "idle"
            /\ last'.op = "detect"
            /\ last'.snapshot = CollectQuotes(coroutines["detector"].results)
            /\ opportunities' = LiveTable(last'.ret)]_vars

(* both tables were swapped by a detection cycle while a GET /quotes request
   is in flight with some of its tasks done and some not *)
C12_Witness ==
    /\ last.op = "detect"
    /\ opportunities # <<>>
    /\ quotes_cache = last.snapshot
    /\ coroutines["api"].pc = "gather"
    /\ DOMAIN coroutines["api"].results # {}
    /\ DOMAIN coroutines["api"].results # SeqToSet(coroutines["api"].tasks)
    /\ \E n \in DOMAIN coroutines["api"].results :
          coroutines["api"].results[n] # quotes_cache[n]

Age(o) == now - o.timestamp

RecentEntries == {i \in 1..Len(historical_opportunities) : Age(historical_opportunities[i]) < RetentionWindow}

(* C13: right after a history update no retained entry is a day old or older
   and the historical_frequency of each returned opportunity counts entries
   younger than a day only; historical_24h of get_analytics counts the
   entries younger than a day and no other, whether the history was updated
   in the meantime or not *)
C13_DayOldExcluded ==
    /\ last.op = "analyze" /\ last.t = now /\ ~TooFewSources(last.snapshot) =>
          /\ RecentEntries = 1..Len(historical_opportunities)
          /\ \A k \in 1..Len(last.ret) :
                last.ret[k].historical_frequency =
                    Rat(Cardinality({i \in RecentEntries :
                            SameRoute(historical_opportunities[i], last.ret[k])}),
                        IF RecentEntries = {} THEN 1 ELSE Cardinality(RecentEntries))
    /\ last.op = "get_analytics" /\ last.t = now =>
          /\ last.result.historical_24h.total_opportunities = Cardinality(RecentEntries)
          /\ last.result.historical_24h.opportunities_per_hour =
                 Rat(Cardinality(RecentEntries), HoursPerDay)

(* get_analytics is called while the history still holds an opportunity
   found more than a day earlier, which no cycle has pruned yet *)
C13_Witness ==
    /\ last.op = "get_analytics"
    /\ last.t = now
    /\ \E i \in 1..Len(historical_opportunities) :
          Age(historical_opportunities[i]) > RetentionWindow
    /\ last.result.historical_24h.total_opportunities = 0

Ordinal(level) == Index(risk_levels, level)

(* C14: for a condition whose max_risk_level is one of the five levels,
   matches returns true exactly when the condition is enabled, its symbol is
   unset or the opportunity's, spread_percent, profit_potential and
   confidence_score are each at least the condition's minimum, the preferred
   exchanges are empty or hold the buy or the sell exchange, and the
   opportunity's risk level is not above max_risk_level; with
   min_spread_percent 0.5 a 0.4% opportunity is rejected *)
C14_MatchesAllCriteria ==
    last.op = "matches" /\ last.condition.max_risk_level \in SeqToSet(risk_levels) =>
        LET c == last.condition
            o == last.opportunity
        IN  /\ ~last.result.raised
            /\ last.result.value <=>
                  /\ c.enabled
                  /\ c.symbol = Unset \/ c.symbol = o.symbol
                  /\ RLe(c.min_spread_percent, o.spread_percent)
                  /\ RLe(c.min_profit_potential, o.profit_potential)
                  /\ RLe(c.min_confidence_score, o.confidence_score)
                  /\ \/ c.preferred_exchanges = <<>>
                     \/ o.buy_exchange \in SeqToSet(c.preferred_exchanges)
                     \/ o.sell_exchange \in SeqToSet(c.preferred_exchanges)
                  /\ Ordinal(o.risk_level) <= Ordinal(c.max_risk_level)
            /\ c.min_spread_percent = Rat(5, 10) /\ o.spread_percent = Rat(4, 10) =>
                  ~last.result.value

(* a condition with min_spread_percent 0.5 accepts a 0.6% opportunity whose
   risk level is exactly its max_risk_level *)
C14_Witness ==
    /\ last.op = "matches"
    /\ last.condition.min_spread_percent = Rat(5, 10)
    /\ last.opportunity.spread_percent = Rat(6, 10)
    /\ last.condition.max_risk_level = last.opportunity.risk_level
    /\ last.condition.preferred_exchanges # <<>>
    /\ last.condition.symbol # Unset
    /\ last.result.value

(* C15: a check_alerts pass that returns, returns the pairs of a registered
   condition and a given opportunity for which matches is true, all of them
   and each once *)
C15_AllMatchingPairs ==
    last.op = "check_alerts" /\ ~last.result.raised =>
        /\ SeqToSet(last.result.triggered) =
              {p \in SeqToSet(last.registered) \X SeqToSet(last.given) :
                  Matches(p[1], p[2]).value}
        /\ Len(last.result.triggered) = Cardinality(SeqToSet(last.result.triggered))

(* one opportunity of the pass triggered two conditions and one condition
   was triggered by two opportunities *)
C15_Witness ==
    /\ last.op = "check_alerts"
    /\ \E p, q \in SeqToSet(last.result.triggered) : p[1] # q[1] /\ p[2] = q[2]
    /\ \E p, q \in SeqToSet(last.result.triggered) : p[1] = q[1] /\ p[2] # q[2]

(* C16: a pass evaluates the conditions registered when it started, whatever
   request arrives while it runs: it raises only if a matches() of those
   conditions raises, it returns their matching pairs in loop order, and the
   request is in the registry once the pass is over, for the next pass *)
C16_PassSeesRegistryAtStart ==
    last.op = "check_alerts" =>
        /\ last.result.raised <=>
              \E c \in SeqToSet(last.registered), o \in SeqToSet(last.given) :
                  Matches(c, o).raised
        /\ ~last.result.raised =>
              last.result.triggered =
                  SelectSeq(LoopPairs(last.registered, last.given),
                            LAMBDA p : Matches(p[1], p[2]).value)
        /\ alert_conditions = Serve(last.registered, last.request)

(* while a pass ran, a client posted a condition that matches one of the
   given opportunities, or deleted one that does; the pass returned as if
   nothing had arrived *)
C16_Witness ==
    /\ last.op = "check_alerts"
    /\ last.request.method # "NONE"
    /\ ~last.result.raised
    /\ alert_conditions # last.registered
    /\ CheckAlerts(alert_conditions, last.given) # last.result
    /\ ~CheckAlerts(alert_conditions, last.given).raised

Service == coroutines["detector"]

(* C17 as stated: the service sleeps 15 s after a cycle that ended normally
   and 10 s after one that ended in an exception, whichever server runs it *)
C17_WaitsFifteenSeconds ==
    Service.pc = "sleep" =>
        Service.seconds = IF Service.after = "exception" THEN BackOff
                          ELSE DetectionInterval

(* C17: whenever a cycle of the detection service is over, whether it ended
   normally or in an exception of the detection, the alert check or the
   broadcast, the service starts another cycle, after having slept 10 s if
   the cycle ended in an exception and 15 s (api/server.py) or 20 s
   (server.py) if not *)
C17_LoopRestarts ==
    (Service.pc \notin {"idle", "detecting"}) ~>
        (/\ Service.pc = "detecting"
         /\ "seconds" \in DOMAIN Service
         /\ Service.seconds = IF Service.after = "exception" THEN BackOff
                              ELSE IF entry = "api/server.py" THEN DetectionInterval
                              ELSE LegacyDetectionInterval)

(* a cycle has started 10 s after a cycle in which check_alerts raised *)
C17_Witness ==
    /\ Service.pc = "detecting"
    /\ "seconds" \in DOMAIN Service
    /\ Service.after = "exception"
    /\ Service.seconds = BackOff
    /\ last.op = "detect"
    /\ CheckAlerts(alert_conditions, last.ret).raised

(* C18: after health_check() on a source whose client exists, the source is
   connected if and only if its upstream answers the probe with a ticker the
   adapter accepts, whatever the connected flag was before the check *)
C18_ConnectedIffProbeAnswered ==
    (last.op = "health_check" /\ last.before.exchange) =>
        (exchanges[last.source].connected <=>
            FetchTicker(last.source, [last.before EXCEPT !.connected = TRUE],
                        last.symbol, last.resp, now).quote # Null)

(* C19: when the outer timeout of the fan-out fires, fetch_all_quotes returns
   the quotes of every source whose fetches had completed with a quote *)
C19_PartialResultsOnTimeout ==
    (last.op = "fetch_all_quotes" /\ last.timed_out) =>
        \A n \in DOMAIN last.fetched :
            DOMAIN last.fetched[n] # {} =>
                /\ n \in DOMAIN last.snapshot
                /\ last.snapshot[n] = last.fetched[n]

(* the risk level of the opportunity whose spread is `hundredths` / 100
   percent *)
LevelAt(hundredths) == AssessRiskLevel([spread_percent |-> Rat(hundredths, 100)])

(* C20: the risk level of an opportunity is high above 1.0 percent,
   medium-high above 0.5, medium above 0.2, medium-low above 0.1 and low
   otherwise, a spread on a threshold taking the lower level; the level never
   falls as the spread grows; 0.05, 0.15, 0.3, 0.7 and 1.5 percent are low,
   medium-low, medium, medium-high and high *)
C20_RiskTiers ==
    last.op = "matches" =>
        LET o == last.opportunity
            sp == o.spread_percent
        IN  /\ o.risk_level = "high" <=> RLt(Rat(10, 10), sp)
            /\ o.risk_level = "medium-high" <=> RLt(Rat(5, 10), sp) /\ RLe(sp, Rat(10, 10))
            /\ o.risk_level = "medium" <=> RLt(Rat(2, 10), sp) /\ RLe(sp, Rat(5, 10))
            /\ o.risk_level = "medium-low" <=> RLt(Rat(1, 10), sp) /\ RLe(sp, Rat(2, 10))
            /\ o.risk_level = "low" <=> RLe(sp, Rat(1, 10))
            /\ \A hundredths \in SpreadTicks :
                  /\ RLe(Rat(hundredths, 100), sp)
                        => Ordinal(LevelAt(hundredths)) <= Ordinal(o.risk_level)
                  /\ RLe(sp, Rat(hundredths, 100))
                        => Ordinal(o.risk_level) <= Ordinal(LevelAt(hundredths))
            /\ sp = Rat(5, 100) => o.risk_level = "low"
            /\ sp = Rat(15, 100) => o.risk_level = "medium-low"
            /\ sp = Rat(30, 100) => o.risk_level = "medium"
            /\ sp = Rat(70, 100) => o.risk_level = "medium-high"
            /\ sp = Rat(150, 100) => o.risk_level = "high"

(* an opportunity of exactly 0.5 percent was assessed, and is medium *)
C20_Witness ==
    /\ last.op = "matches"
    /\ last.opportunity.spread_percent = Rat(5, 10)
    /\ last.opportunity.risk_level = "medium"

(* C21: for a fixed instrument, route and volumes the confidence score does
   not fall as the spread grows, and the confidence score of every
   opportunity the detector constructs lies between 0 and 1 *)
C21_ConfidenceMonotoneWithinUnit ==
    (last.op = "check_arbitrage_pair" /\ last.result # <<>>) =>
        LET o == last.result[1]
        IN  /\ RLe(Zero, o.confidence_score)
            /\ RLe(o.confidence_score, One)
            /\ \A ticks \in ScoreTicks :
                 LET other == ScorePair(last.symbol, last.buy_exchange,
                                        last.sell_exchange, ticks, last.buy_volume,
                                        last.sell_volume, min_spread_percent, now)
                 IN  (other # <<>> /\ RLe(o.spread_percent, other[1].spread_percent))
                         => RLe(o.confidence_score, other[1].confidence_score)

Entries(seq) == {seq[i] : i \in 1..Len(seq)}

(* C22 as stated: what detect_opportunities returns is what the constructor
   built, no field changed by the history update *)
C22_ReturnedAsConstructed ==
    last.op = "analyze" => last.ret = last.constructed

(* C22: the history update of the cycle that constructed an opportunity sets
   its historical_frequency and leaves its other fields as constructed, and no
   operation changes an opportunity after that: every entry of the history
   and of the live table is the entry as it was before the step, or an
   opportunity the step returned *)
C22_OnlyFrequencySetOnce ==
    [][/\ \A o \in Entries(historical_opportunities') :
            \/ o \in Entries(historical_opportunities)
            \/ last'.op = "analyze" /\ o \in Entries(last'.ret)
       /\ \A id \in DOMAIN opportunities' :
            \/ id \in DOMAIN opportunities /\ opportunities'[id] = opportunities[id]
            \/ last'.op = "analyze" /\ opportunities'[id] \in Entries(last'.ret)
       /\ last'.op = "analyze" =>
            /\ Len(last'.ret) = Len(last'.constructed)
            /\ \A i \in 1..Len(last'.ret) :
                 [last'.ret[i] EXCEPT !.historical_frequency = Zero]
                     = last'.constructed[i]]_vars

(* a cycle returned an opportunity on a route the history already held, with a
   historical_frequency other than the one of the older entry *)
C22_Witness ==
    /\ last.op = "analyze"
    /\ \E old \in Entries(historical_opportunities) \ Entries(last.ret) :
       \E new \in Entries(last.ret) :
            /\ SameRoute(old, new)
            /\ old.historical_frequency # new.historical_frequency

(* C23: the list detect_opportunities returns is in descending order of
   profit_potential, and opportunities of equal profit_potential are in
   descending order of spread_percent *)
C23_SortedByProfitThenSpread ==
    last.op = "analyze" =>
        \A i \in 1..Len(last.ret), j \in 1..Len(last.ret) :
            i < j =>
                \/ RLt(last.ret[j].profit_potential, last.ret[i].profit_potential)
                \/ /\ last.ret[j].profit_potential = last.ret[i].profit_potential
                   /\ RLe(last.ret[j].spread_percent, last.ret[i].spread_percent)

(* C24: connect() returns true with the source connected and error_count as
   before when it succeeds, returns false with the source disconnected and
   error_count one higher when it fails, and a connect() that succeeds on a
   source already connected leaves the status as it was *)
C24_ConnectReportsOutcome ==
    last.op = "connect" =>
        LET before == last.before
            after == exchanges[last.source]
        IN  /\ last.ok => /\ after.connected
                          /\ after.error_count = before.error_count
            /\ ~last.ok => /\ ~after.connected
                           /\ after.error_count = before.error_count + 1
            /\ (last.ok /\ before.exchange /\ before.connected) => after = before

(* connect() succeeded on a source that was connected and had counted an
   error before *)
C24_Witness ==
    /\ last.op = "connect"
    /\ last.ok
    /\ last.before.connected
    /\ last.before.error_count > 0
    /\ last.source \in {"kraken", "bitfinex"}

(* C25: whichever connect() fail or raise, initialize() attempts every
   registered source and returns one boolean for each of them, true exactly
   for the sources that are connected *)
C25_InitializeNeverAborts ==
    last.op = "initialize" =>
        /\ DOMAIN last.results = Sources
        /\ \A n \in Sources :
            /\ last.results[n] \in BOOLEAN
            /\ last.results[n] <=> exchanges[n].connected
            /\ exchanges[n].exchange

(* the first source failed to connect, the second raised, the third
   connected *)
C25_Witness ==
    /\ last.op = "initialize"
    /\ ~last.results["kraken"]
    /\ "kucoin" \in last.raising
    /\ last.results["bitfinex"]
    /\ exchanges["bitfinex"].connected

(* C26: a fetch_all_quotes of the exchange manager runs the health checks
   first exactly when more than 60 s have passed since the last health
   check, and no source that is disconnected at the fan-out contributes
   quotes to what it returns *)
C26_HealthChecksWhenDue ==
    [][(last'.op = "fetch_all_quotes" /\ entry = "api/server.py") =>
          /\ IF now - last_health_check > 60
             THEN last_health_check' = now
             ELSE /\ last_health_check' = last_health_check
                  /\ \A n \in Sources :
                        exchanges'[n].connected = exchanges[n].connected
          /\ \A n \in Sources :
                ~exchanges'[n].connected =>
                    /\ n \notin DOMAIN last'.snapshot
                    /\ n \notin DOMAIN last'.fetched]_vars

(* a call that found no health check due left out a disconnected source and
   returned the quotes of a connected one *)
C26_Witness ==
    /\ last.op = "fetch_all_quotes"
    /\ entry = "api/server.py"
    /\ ~last.due
    /\ \E n \in Sources : ~exchanges[n].connected
    /\ DOMAIN last.snapshot # {}

(* C27: in a fetch_all_quotes in which a source counts an error, every other
   source whose fetches all succeed keeps its error_count and its connected
   flag, and its quotes are returned as fetched *)
C27_FailureIsolated ==
    [][(last'.op = "fetch_all_quotes" /\ entry = "api/server.py") =>
          \A n \in Sources, m \in Sources :
              (/\ n # m
               /\ exchanges'[n].error_count > exchanges[n].error_count
               /\ m \in DOMAIN last'.fetched
               /\ DOMAIN last'.fetched[m] = SeqToSet(symbols))
              => /\ exchanges'[m].error_count = exchanges[m].error_count
                 /\ exchanges'[m].connected
                 /\ m \in DOMAIN last'.snapshot
                 /\ last'.snapshot[m] = last'.fetched[m]
                 /\ \A symbol \in SeqToSet(symbols) :
                       /\ last'.snapshot[m][symbol].exchange = m
                       /\ last'.snapshot[m][symbol].symbol = symbol]_vars

(* the kraken task ended in an exception and was counted, bitfinex delivered
   all its quotes and has counted nothing *)
C27_Witness ==
    /\ last.op = "fetch_all_quotes"
    /\ entry = "api/server.py"
    /\ "kraken" \in last.threw
    /\ exchanges["kraken"].error_count > 0
    /\ "bitfinex" \in DOMAIN last.snapshot
    /\ DOMAIN last.snapshot["bitfinex"] = SeqToSet(symbols)
    /\ exchanges["bitfinex"].error_count = 0


(* C28: within one source's fetch_all_tickers the failure of one instrument's
   fetch, by an exception or by a null result, does not abort the others: the
   returned map holds the Quote of every tracked instrument whose own fetch
   succeeded, and holds nothing for the others *)
C28_InstrumentFailureIsolated ==
    last.op = "fetch_all_tickers" =>
        /\ DOMAIN last.results \subseteq SeqToSet(symbols)
        /\ \A symbol \in SeqToSet(symbols) :
             LET f == FetchTicker(last.source, last.before, symbol, last.up[symbol], now)
             IN  IF f.quote # Null
                 THEN /\ symbol \in DOMAIN last.results
                      /\ last.results[symbol] = f.quote
                 ELSE symbol \notin DOMAIN last.results

C28_Witness ==
    /\ last.op = "fetch_all_tickers"
    /\ last.up[symbols[1]].fails >= max_retries
    /\ exchanges[last.source].error_count > last.before.error_count
    /\ DOMAIN last.results = {symbols[2]}


(* C29: get_quote returns the cached quote when the cache holds one for the
   source and the instrument and was refreshed less than 30 s ago; otherwise,
   if the source is registered and connected, it returns the result of one
   fetch_ticker of that source, whose adapter is as one call leaves it;
   otherwise it returns null and touches nothing (a step that leaves the
   clock alone and ends in a get_quote record is a get_quote call) *)
C29_GetQuoteCacheThenOneFetch ==
    [][(last'.op = "get_quote" /\ now' = now) =>
         LET e == last'.exchange
             s == last'.symbol
             cached == e \in DOMAIN quotes_cache /\ s \in DOMAIN quotes_cache[e]
             fresh == now - last_update < 30
         IN  IF cached /\ fresh
             THEN last'.ret = quotes_cache[e][s] /\ exchanges' = exchanges
             ELSE IF e \in Sources /\ exchanges[e].connected
             THEN LET f == FetchTicker(e, exchanges[e], s, last'.resp, now)
                  IN  /\ last'.ret = f.quote
                      /\ exchanges' = [exchanges EXCEPT ![e] = f.adapter]
                      /\ exchanges'[e].error_count <= exchanges[e].error_count + 1
             ELSE last'.ret = Null /\ exchanges' = exchanges]_vars

(* the cache holds the quote, it is 30 s old, and the adapter was asked *)
C29_Witness ==
    /\ last.op = "get_quote"
    /\ last.exchange \in DOMAIN quotes_cache
    /\ last.symbol \in DOMAIN quotes_cache[last.exchange]
    /\ now - last_update = 30
    /\ last.ret # Null
    /\ last.ret # quotes_cache[last.exchange][last.symbol]


(* C30: one fetch_ticker call, of an adapter or of exchanges.py, makes at
   most max_retries upstream requests; every request after the first follows
   a request that raised, so an answer that fails validation (no bid, no ask,
   bid >= ask) ends the call with null and without another request *)
C30_BoundedAttempts ==
    last.op \in {"fetch_ticker", "legacy_fetch_ticker"} =>
        /\ last.requests <= max_retries
        /\ last.requests <= last.resp.fails + 1
        /\ (/\ last.resp.fails < max_retries
            /\ \/ Falsy(last.resp.bid) \/ Falsy(last.resp.ask)
               \/ last.resp.bid >= last.resp.ask)
           => last.quote = Null

(* two requests raise and the third answers without a bid *)
C30_Witness ==
    /\ last.op = "fetch_ticker"
    /\ last.source = "kraken"
    /\ last.before.connected
    /\ last.resp.fails = 2
    /\ Falsy(last.resp.bid)
    /\ last.requests = 3
    /\ last.quote = Null


(* C31: after the history update of a detection cycle, the
   historical_frequency of each opportunity of the cycle is the number of
   retained history entries (this cycle's included) with its symbol, buy
   exchange and sell exchange, divided by the number of retained entries, and
   so is above 0 and at most 1 *)
C31_FrequencyOverRetained ==
    (last.op = "analyze" /\ ~last.raised) =>
        \A i \in 1..Len(last.ret) :
            LET o == last.ret[i]
                similar == {k \in 1..Len(historical_opportunities) :
                               SameRoute(historical_opportunities[k], o)}
            IN  /\ o.historical_frequency =
                       Rat(Cardinality(similar), Len(historical_opportunities))
                /\ o.historical_frequency[1] > 0
                /\ o.historical_frequency[1] <= o.historical_frequency[2]

(* a cycle with two routes on top of an earlier cycle's entries *)
C31_Witness ==
    /\ last.op = "analyze"
    /\ Len(last.ret) >= 2
    /\ Len(historical_opportunities) > Len(last.ret)
    /\ \E i \in 1..Len(last.ret) :
          /\ last.ret[i].historical_frequency[1] > 0
          /\ last.ret[i].historical_frequency[1] < last.ret[i].historical_frequency[2]


(* the score the description builds from a starting value: the error
   penalty, the bonus below 1 s or the penalty above 3 s, the clamp *)
ScoreFrom(start, status) ==
    LET penalty == RMin(Rat(status.error_count * 5, 100), Rat(3, 10))
        avg == status.avg_response_time
        adjust == IF RLt(avg, One)
                  THEN RMin(RMul(RSub(One, avg), Rat(1, 5)), Rat(1, 5))
                  ELSE IF RLt(Rat(3, 1), avg)
                  THEN RSub(Zero, RMin(RMul(RSub(avg, Rat(3, 1)), Rat(1, 10)), Rat(3, 10)))
                  ELSE Zero
    IN  RMax(Zero, RMin(One, RAdd(RSub(start, penalty), adjust)))

(* C32 as stated: the health score of every status is the clamped sum that
   starts at 0.5 if connected and at 0 otherwise *)
C32_ScoreAsStated ==
    last.op = "calculate_health_score" =>
        last.health_score =
            ScoreFrom(IF last.status.connected THEN Rat(1, 2) ELSE Zero, last.status)

(* C32: the health score of a status that is not connected is 0; that of a
   connected status starts at 0.5, loses min(error_count * 0.05, 0.3), gains
   up to 0.2 below 1 s or loses up to 0.3 above 3 s of average response time,
   and is clamped; the score is always within [0, 1] *)
C32_ScoreZeroUnlessConnected ==
    last.op = "calculate_health_score" =>
        /\ last.health_score =
               IF last.status.connected THEN ScoreFrom(Rat(1, 2), last.status) ELSE Zero
        /\ RLe(Zero, last.health_score)
        /\ RLe(last.health_score, One)

(* a status that is not connected, without errors, answering in half a
   second *)
C32_Witness ==
    /\ last.op = "calculate_health_score"
    /\ ~last.status.connected
    /\ last.status.error_count = 0
    /\ last.status.avg_response_time = Rat(1, 2)
    /\ last.health_score = Zero


(* the last n entries of a list *)
LastN(s, n) == IF Len(s) <= n THEN s ELSE SubSeq(s, Len(s) - n + 1, Len(s))

(* C33: the rolling windows are bounded with the oldest entry evicted first:
   a detection cycle that updates the statistics leaves the last 100
   detection times, the new one last, and their mean as avg_detection_time;
   update_response_time leaves the last 10 response times, the new one last,
   and their mean as avg_response_time *)
C33_WindowsKeepMostRecent ==
    [][/\ last'.op = "update_response_time" =>
            LET times == exchanges'["kraken"].response_times
            IN  /\ Len(times) <= 10
                /\ times = LastN(Append(exchanges["kraken"].response_times,
                                        last'.response_time), 10)
                /\ exchanges'["kraken"].avg_response_time =
                       Rat(SumSeq(times), Len(times))
       /\ (/\ last'.op = "timed_cycle"
           /\ detection_stats'.total_detections > detection_stats.total_detections) =>
            LET times == detection_stats'.detection_times
            IN  /\ Len(times) <= 100
                /\ times = LastN(Append(detection_stats.detection_times,
                                        last'.detection_time), 100)
                /\ detection_stats'.avg_detection_time =
                       Rat(SumSeq(times), Len(times))
       /\ Len(detection_stats'.detection_times) <= 100
       /\ Len(exchanges'["kraken"].response_times) <= 10]_vars

(* both windows are full, and the last cycle evicted a detection time *)
C33_Witness ==
    /\ last.op = "timed_cycle"
    /\ Len(last.before) = 100
    /\ Len(detection_stats.detection_times) = 100
    /\ detection_stats.detection_times # last.before
    /\ detection_stats.total_detections > 100
    /\ Len(exchanges["kraken"].response_times) = 10
    /\ exchanges["kraken"].response_times # EarlierTimes(9) \o <<1>>
    /\ exchanges["kraken"].response_times # EarlierTimes(9) \o <<2>>


ValidQuote(q) == q.bid < q.ask

(* C34: for two sources whose quotes of a symbol both have bid < ask, a
   detection cycle returns an opportunity for at most one of the two
   directions; both directions are returned only if one of the two quotes is
   crossed or locked *)
C34_OneDirectionForValidQuotes ==
    (last.op = "analyze" /\ ~last.raised) =>
        \A x \in DOMAIN last.snapshot : \A y \in DOMAIN last.snapshot \ {x} :
        \A symbol \in SeqToSet(symbols) :
            LET forth == HasRoute(last.ret, symbol, x, y)
                back == HasRoute(last.ret, symbol, y, x)
                qx == last.snapshot[x][symbol]
                qy == last.snapshot[y][symbol]
            IN  /\ (ValidQuote(qx) /\ ValidQuote(qy)) => ~(forth /\ back)
                /\ (forth /\ back) => (qx.bid >= qx.ask \/ qy.bid >= qy.ask)

(* two valid quotes with a spread one way: that direction only *)
C34_Witness ==
    /\ last.op = "analyze"
    /\ \E x \in DOMAIN last.snapshot : \E y \in DOMAIN last.snapshot \ {x} :
          /\ ValidQuote(last.snapshot[x][symbols[1]])
          /\ ValidQuote(last.snapshot[y][symbols[1]])
          /\ last.snapshot[y][symbols[1]].bid > last.snapshot[x][symbols[1]].ask
          /\ HasRoute(last.ret, symbols[1], x, y)
          /\ ~HasRoute(last.ret, symbols[1], y, x)


(* C35: for every condition registered through add_alert_condition, also one
   whose max_risk_level is no risk level, and every list of opportunities,
   check_alerts returns without raising *)
C35_CheckAlertsNeverRaises ==
    last.op = "check_alerts" => ~last.result.raised


(* ret's opportunities are entries of the history, whatever their
   historical_frequency *)
Retained(ret, history) ==
    \A i \in 1..Len(ret) :
        \E k \in 1..Len(history) :
            [history[k] EXCEPT !.historical_frequency = Zero] =
                [ret[i] EXCEPT !.historical_frequency = Zero]

(* C36 as stated: a detection cycle that catches an exception leaves the live
   table, the history and the statistics as they were and returns an empty
   list, wherever the exception was raised *)
C36_InterruptedCycleAtomic ==
    [][(last'.op = "interrupted_cycle" /\ last'.reached /\ now' = now) =>
          /\ opportunities' = opportunities
          /\ historical_opportunities' = historical_opportunities
          /\ detection_stats' = detection_stats
          /\ last'.ret = <<>>]_vars

(* C36: a detection cycle that catches an exception of the fetch leaves the
   live table, the history and the statistics as they were and returns an
   empty list.  An exception of a later statement undoes nothing: from the
   analysis it leaves the three as they were; from the history update it
   leaves the live table and the statistics as they were, with the cycle's
   opportunities returned and in the history; from the statistics update the
   cycle's opportunities are returned, are the live table and are in the
   history, and the cycle is counted *)
C36_InterruptedCycleKeepsCompletedUpdates ==
    [][(last'.op = "interrupted_cycle" /\ last'.reached /\ now' = now) =>
          /\ last'.raise_at = "fetch" =>
                /\ opportunities' = opportunities
                /\ historical_opportunities' = historical_opportunities
                /\ detection_stats' = detection_stats
                /\ last'.ret = <<>>
          /\ last'.raise_at = "analysis" =>
                /\ opportunities' = opportunities
                /\ historical_opportunities' = historical_opportunities
                /\ detection_stats' = detection_stats
          /\ last'.raise_at = "history_update" =>
                /\ opportunities' = opportunities
                /\ detection_stats' = detection_stats
                /\ Retained(last'.ret, historical_opportunities')
          /\ last'.raise_at = "stats_update" =>
                /\ opportunities' = LiveTable(last'.ret)
                /\ Retained(last'.ret, historical_opportunities')
                /\ detection_stats'.total_detections =
                       detection_stats.total_detections + 1
                /\ detection_stats'.avg_detection_time =
                       detection_stats.avg_detection_time]_vars

(* the statistics update raised after a cycle that found opportunities *)
C36_Witness ==
    /\ last.op = "interrupted_cycle"
    /\ last.raise_at = "stats_update"
    /\ last.ret # <<>>
    /\ opportunities = LiveTable(last.ret)
    /\ Len(historical_opportunities) > Len(last.ret)


(* C37: at most one pass of perform_health_checks is in flight at any time,
   whether called by the detection loop's fetch_all_quotes, by the
   fetch_all_quotes of a GET /quotes request or by the health monitoring
   service *)
C37_OneHealthPassInFlight ==
    Cardinality({c \in Coroutines : coroutines[c].pc = "health_checks"}) <= 1


(* C38: in the table returned by fetch_all_quotes and in the cached table
   every source key maps to a non-empty instrument map; a connected source
   whose every ticker fetch failed has no key *)
C38_NoEmptySourceMaps ==
    entry = "api/server.py" =>
        /\ \A n \in DOMAIN quotes_cache : quotes_cache[n] # <<>>
        /\ last.op \in {"fetch_all_quotes", "detect"} /\ ~last.fetch_raised =>
              /\ \A n \in DOMAIN last.snapshot : last.snapshot[n] # <<>>
              /\ \A n \in DOMAIN last.fetched :
                    last.fetched[n] = <<>> => n \notin DOMAIN last.snapshot

C38_Witness ==
    /\ entry = "api/server.py"
    /\ last.op = "fetch_all_quotes"
    /\ \E n \in DOMAIN last.fetched :
          /\ exchanges[n].connected
          /\ last.fetched[n] = <<>>
          /\ n \notin DOMAIN last.snapshot
    /\ last.snapshot # <<>>
    /\ quotes_cache = last.snapshot


(* the routes handed to _check_arbitrage_pair for one instrument, in the
   order of the calls *)
EvaluatedRoutes(symbol, all_quotes) ==
    LET exs == QuotingExchanges(symbol, all_quotes)
        pairs == PairLoop(Len(exs), 1, 1)
    IN  Flatten([k \in 1..Len(pairs) |->
                    <<<<symbol, exs[pairs[k][1]], exs[pairs[k][2]]>>,
                      <<symbol, exs[pairs[k][2]], exs[pairs[k][1]]>>>>])

Route(opp) == <<opp.symbol, opp.buy_exchange, opp.sell_exchange>>

(* C39: within one detection cycle every (instrument, buy source, sell
   source) with different sources is evaluated exactly once, so the
   opportunities of the cycle have pairwise distinct routes and the live
   table keyed by id has as many entries as the returned list *)
C39_RoutesEvaluatedOnce ==
    last.op = "analyze" /\ ~last.raised =>
        /\ \A k \in 1..Len(symbols) :
              LET routes == EvaluatedRoutes(symbols[k], last.snapshot)
                  quoting == SeqToSet(QuotingExchanges(symbols[k], last.snapshot))
              IN  /\ SeqToSet(routes) = {<<symbols[k], b, s>> : b, s \in quoting} \
                                           {<<symbols[k], b, b>> : b \in quoting}
                  /\ Cardinality(SeqToSet(routes)) = Len(routes)
        /\ \A i, j \in 1..Len(last.ret) :
              i # j => Route(last.ret[i]) # Route(last.ret[j])
        /\ \A i \in 1..Len(last.ret) :
              last.ret[i].buy_exchange # last.ret[i].sell_exchange
        /\ Cardinality(DOMAIN opportunities) = Len(last.ret)

C39_Witness ==
    /\ last.op = "analyze"
    /\ ~last.raised
    /\ Len(last.ret) = 3
    /\ Cardinality(DOMAIN opportunities) = 3
    /\ \E i, j \in 1..3 : last.ret[i].buy_exchange = last.ret[j].sell_exchange

====
